---------------------------- MODULE Spec2Model ----------------------------
(***************************************************************************)
(* RasPyCam control-plane daemon: the pipe reader, the command queue, the  *)
(* dispatcher, the previewer loop, the motion-detection loop, the status   *)
(* derivation and the filename / thumbnail index allocator.                *)
(*                                                                         *)
(* Text (pipe contents, file names, path templates) is a tuple of          *)
(* one-character strings, so that slicing, rstrip, replace and splitext    *)
(* are computed as Python computes them.  An optional value (Python None   *)
(* or a value) is a tuple of length 0 or 1.  The status token is a string; *)
(* the falsy status (None) is "".                                          *)
(*                                                                         *)
(* Calls into the capture/encoding collaborator (picamera2) and into the   *)
(* filesystem (reads of the pipe, the copy of the preview image) return;   *)
(* exceptions raised by the daemon's own Python code (joining a thread     *)
(* that was never started, starting a thread twice, the truth value of an  *)
(* array, int() of a non-decimal digit) are modelled.                      *)
(***************************************************************************)
EXTENDS Integers, Sequences, FiniteSets, TLC

(***************************************************************************)
(* Bounds of the model.                                                    *)
(***************************************************************************)
MaxCmds == 3
MaxQueue == 2
MaxSignals == 2

(***************************************************************************)
(* Optional values.                                                        *)
(***************************************************************************)
None == <<>>
Some(x) == <<x>>
Get(o) == o[1]

(***************************************************************************)
(* Text helpers, as the Python str methods used by the code.               *)
(***************************************************************************)
Whitespace == {" ", "\n", "\t"}
DecimalDigits == {"0", "1", "2", "3", "4", "5", "6", "7", "8", "9"}
\* Characters for which str.isdigit() is True and int() raises ValueError
\* (Unicode Numeric_Type=Digit, not Decimal), e.g. SUPERSCRIPT TWO.
SuperscriptDigits == {"^2"}

RECURSIVE rstrip(_)
rstrip(s) ==
    IF s = <<>> THEN s
    ELSE IF s[Len(s)] \in Whitespace THEN rstrip(SubSeq(s, 1, Len(s) - 1))
    ELSE s

\* s[a:] and s[:b] of Python (0-based, clipped).
SliceFrom(s, a) == IF a >= Len(s) THEN <<>> ELSE SubSeq(s, a + 1, Len(s))
SliceTo(s, b) == IF b >= Len(s) THEN s ELSE SubSeq(s, 1, b)
Slice(s, a, b) == SliceFrom(SliceTo(s, b), a)

startswith(s, p) == Len(s) >= Len(p) /\ SubSeq(s, 1, Len(p)) = p
endswith(s, p) == Len(s) >= Len(p) /\ SubSeq(s, Len(s) - Len(p) + 1, Len(s)) = p

\* str.replace: non-overlapping occurrences, left to right.
RECURSIVE replace(_, _, _)
replace(s, old, new) ==
    IF Len(s) < Len(old) THEN s
    ELSE IF SubSeq(s, 1, Len(old)) = old
         THEN new \o replace(SubSeq(s, Len(old) + 1, Len(s)), old, new)
         ELSE <<s[1]>> \o replace(Tail(s), old, new)

isdigit(s) == s # <<>> /\ \A k \in 1..Len(s) : s[k] \in DecimalDigits \cup SuperscriptDigits

DigitChar(d) == CASE d = 0 -> "0" [] d = 1 -> "1" [] d = 2 -> "2" [] d = 3 -> "3"
                  [] d = 4 -> "4" [] d = 5 -> "5" [] d = 6 -> "6" [] d = 7 -> "7"
                  [] d = 8 -> "8" [] d = 9 -> "9"
DigitValue(c) == CHOOSE d \in 0..9 : DigitChar(d) = c

\* str(n) for n >= 0.
RECURSIVE str(_)
str(n) == IF n < 10 THEN <<DigitChar(n)>> ELSE str(n \div 10) \o <<DigitChar(n % 10)>>

\* "%0<w>d" % n.
RECURSIVE zfill(_, _)
zfill(s, w) == IF Len(s) >= w THEN s ELSE zfill(<<"0">> \o s, w)
fmt(w, n) == zfill(str(n), w)

\* int(s): [ok |-> TRUE, value |-> n], or ValueError.
RECURSIVE intvalue(_)
intvalue(s) == IF s = <<>> THEN 0
               ELSE 10 * intvalue(SubSeq(s, 1, Len(s) - 1)) + DigitValue(s[Len(s)])
int(s) == IF s # <<>> /\ \A k \in 1..Len(s) : s[k] \in DecimalDigits
          THEN [ok |-> TRUE, value |-> intvalue(s)]
          ELSE [ok |-> FALSE, value |-> 0]

\* os.path.splitext of a name without a directory part: the extension starts at
\* the last dot, unless only dots precede it.
LastDot(s) == IF \E k \in 1..Len(s) : s[k] = "."
              THEN CHOOSE k \in 1..Len(s) : s[k] = "." /\ \A j \in (k+1)..Len(s) : s[j] # "."
              ELSE 0
splitext(s) ==
    LET d == LastDot(s) IN
    IF d > 0 /\ \E k \in 1..(d - 1) : s[k] # "."
    THEN <<SubSeq(s, 1, d - 1), SubSeq(s, d, Len(s))>>
    ELSE <<s, <<>>>>


(***************************************************************************)
(* CameraCoreModel: class constants.                                       *)
(***************************************************************************)
MAX_COMMAND_LEN == 256
FIFO_MAX == 10
ca == <<"c", "a">>
im == <<"i", "m">>
md == <<"m", "d">>
mx == <<"m", "x">>
ru == <<"r", "u">>
VALID_COMMANDS == {ca, im, md, mx, ru}

(***************************************************************************)
(* read_pipe: the contents of one pipe read -> Some(<<code, param>>) or    *)
(* None (the Python False).                                                *)
(***************************************************************************)
read_pipe_accept_any(contents) ==
    LET contents_str == rstrip(contents) IN
    IF Len(contents_str) > 0
    THEN Some(<<SliceTo(contents_str, 2), SliceFrom(contents_str, 3)>>)
    ELSE None

read_pipe(contents) ==
    LET contents_str == rstrip(contents)
        cmd_code == SliceTo(contents_str, 2)
        cmd_param == SliceFrom(contents_str, 3)
    IN  IF Len(contents_str) > 0 /\ cmd_code \in VALID_COMMANDS
        THEN Some(<<cmd_code, cmd_param>>)
        ELSE None

(***************************************************************************)
(* CameraCoreModel.set_status (the timelapse-aware variant).  The falsy    *)
(* status (None) is "".                                                    *)
(***************************************************************************)
NoStatus == ""
ErrorTokens == {"Error", "Error: camera"}
IsError(status) == status \in ErrorTokens

derive_status_video_first(c) ==
    IF ~c.started THEN "halted"
    ELSE IF c.capturing_video
         THEN IF c.motion_detection
              THEN (IF c.timelapse_on THEN "tl_md_video" ELSE "md_video")
              ELSE (IF c.timelapse_on THEN "tl_video" ELSE "video")
    ELSE IF c.capturing_still THEN "image"
    ELSE IF c.motion_detection
         THEN (IF c.timelapse_on THEN "tl_md_ready" ELSE "md_ready")
         ELSE (IF c.timelapse_on THEN "timelapse" ELSE "ready")

derive_status(c) ==
    IF ~c.started THEN "halted"
    ELSE IF c.capturing_still THEN "image"
    ELSE IF c.capturing_video
         THEN IF c.motion_detection
              THEN (IF c.timelapse_on THEN "tl_md_video" ELSE "md_video")
              ELSE (IF c.timelapse_on THEN "tl_video" ELSE "video")
    ELSE IF c.motion_detection
         THEN (IF c.timelapse_on THEN "tl_md_ready" ELSE "md_ready")
         ELSE (IF c.timelapse_on THEN "timelapse" ELSE "ready")

set_status(c, status) ==
    IF status # NoStatus /\ c.current_status = NoStatus
    THEN [c EXCEPT !.current_status = status]
    ELSE IF status # NoStatus /\ IsError(status)
    THEN [c EXCEPT !.current_status = status]
    ELSE [c EXCEPT !.current_status = derive_status(c)]

\* set_status of the variant without timelapse: an explicit status always
\* overrides, video has precedence over a still, other tokens.
set_status_simple(c, status) ==
    IF status # NoStatus THEN [c EXCEPT !.current_status = status]
    ELSE [c EXCEPT !.current_status =
            IF ~c.started THEN "halted"
            ELSE IF c.capturing_video
                 THEN (IF c.motion_detection THEN "video_motion" ELSE "video")
            ELSE IF c.capturing_still THEN "image"
            ELSE IF c.motion_detection THEN "motion" ELSE "ready"]

update_status_file_no_write(c, file) == <<set_status(c, NoStatus), file>>

\* update_status_file: <<cam, status file contents>>.
update_status_file(c, file) ==
    LET c2 == set_status(c, NoStatus) IN
    <<c2, IF c2.current_status # NoStatus THEN c2.current_status ELSE file>>

(***************************************************************************)
(* CameraCoreModel.make_filename.  now is datetime.now().                  *)
(***************************************************************************)
round_ms(us) ==
    LET q == us \div 1000
        r == us % 1000
    IN  IF r > 500 \/ (r = 500 /\ q % 2 = 1) THEN q + 1 ELSE q

Tok(ch) == <<"%", ch>>

make_filename(c, name, now) ==
    LET year_4d == fmt(4, now.year)
        year_2d == SliceFrom(year_4d, 2)
        n1  == replace(name, Tok("v"), fmt(4, c.video_file_index))
        n2  == replace(n1, Tok("i"), fmt(4, c.still_image_index))
        n3  == replace(n2, Tok("y"), year_2d)
        n4  == replace(n3, Tok("Y"), year_4d)
        n5  == replace(n4, Tok("M"), fmt(2, now.month))
        n6  == replace(n5, Tok("D"), fmt(2, now.day))
        n7  == replace(n6, Tok("h"), fmt(2, now.hour))
        n8  == replace(n7, Tok("m"), fmt(2, now.minute))
        n9  == replace(n8, Tok("s"), fmt(2, now.second))
        n10 == replace(n9, Tok("u"), fmt(3, round_ms(now.microsecond)))
    IN  replace(n10, Tok("%"), <<"%">>)

(***************************************************************************)
(* CameraCoreModel.make_filecounts over the names listed in the image and  *)
(* video output directories (one set: the code takes the union).           *)
(***************************************************************************)
dot_th == <<".", "t", "h">>

\* The type and count the loop body extracts from one name, and whether the
\* name passes the three "skip" tests.
thumb_typecount(f) ==
    LET file_without_ext == splitext(f)[1]
        without_th == splitext(file_without_ext)[1]
        typecount == splitext(without_th)
    IN  [is_thumb  |-> endswith(file_without_ext, dot_th),
         filetype  |-> Slice(typecount[2], 1, 2),
         filecount |-> SliceFrom(typecount[2], 2)]

thumb_counted(f) ==
    LET tc == thumb_typecount(f) IN
    /\ tc.is_thumb
    /\ tc.filetype # <<>> /\ tc.filecount # <<>>
    /\ tc.filetype \in {<<"i">>, <<"t">>, <<"v">>}
    /\ isdigit(tc.filecount)

SetMax(S) == CHOOSE m \in S : \A x \in S : x <= m

\* [ok |-> FALSE] is the ValueError of int(filecount).
make_filecounts(all_files) ==
    LET counted == {f \in all_files : thumb_counted(f)}
        cnt(f) == int(thumb_typecount(f).filecount)
        vids == {cnt(f).value : f \in {g \in counted : thumb_typecount(g).filetype = <<"v">>}}
        imgs == {cnt(f).value : f \in {g \in counted : thumb_typecount(g).filetype # <<"v">>}}
    IN  IF \E f \in counted : ~cnt(f).ok
        THEN [ok |-> FALSE, still_image_index |-> 0, video_file_index |-> 0]
        ELSE [ok |-> TRUE,
              still_image_index |-> SetMax(imgs \cup {0}) + 1,
              video_file_index |-> SetMax(vids \cup {0}) + 1]

(***************************************************************************)
(* CameraCoreModel.generate_thumbnail: <<cam, thumbnail path>>.            *)
(***************************************************************************)
dot_th_jpg == <<".", "t", "h", ".", "j", "p", "g">>

generate_thumbnail_no_increment(c, filetype, filepath) ==
    LET count == IF filetype = "v" THEN c.video_file_index ELSE c.still_image_index
    IN  <<c, filepath \o <<".", filetype>> \o str(count) \o dot_th_jpg>>

generate_thumbnail_one_counter(c, filetype, filepath) ==
    LET count == c.video_file_index
    IN  <<[c EXCEPT !.video_file_index = count + 1],
          filepath \o <<".", filetype>> \o str(count) \o dot_th_jpg>>

generate_thumbnail(c, filetype, filepath) ==
    LET count == IF filetype \in {"i", "t"} THEN c.still_image_index
                 ELSE c.video_file_index
        c2 == IF filetype \in {"i", "t"}
              THEN [c EXCEPT !.still_image_index = count + 1]
              ELSE [c EXCEPT !.video_file_index = count + 1]
    IN  <<c2, filepath \o <<".", filetype>> \o str(count) \o dot_th_jpg>>

(***************************************************************************)
(* CameraCoreModel.reset_motion_state, stop_all, restart, teardown.        *)
(***************************************************************************)
reset_motion_state(c) ==
    [c EXCEPT !.detected_motion = FALSE,
              !.motion_still_count = 0,
              !.motion_active_count = 0]

stop_all_rescan(c) ==
    [reset_motion_state(c) EXCEPT !.encoder_running = FALSE,
                                  !.started = FALSE,
                                  !.capturing_video = FALSE,
                                  !.capturing_still = FALSE,
                                  !.motion_detection = FALSE,
                                  !.timelapse_on = FALSE,
                                  !.still_image_index = 1,
                                  !.video_file_index = 1]

stop_all_keep_md(c) ==
    [reset_motion_state(c) EXCEPT !.encoder_running = FALSE,
                                  !.started = FALSE,
                                  !.capturing_video = FALSE,
                                  !.capturing_still = FALSE,
                                  !.timelapse_on = FALSE]

stop_all(c) ==
    [reset_motion_state(c) EXCEPT !.encoder_running = FALSE,
                                  !.started = FALSE,
                                  !.capturing_video = FALSE,
                                  !.capturing_still = FALSE,
                                  !.motion_detection = FALSE,
                                  !.timelapse_on = FALSE]

restart(c) == [c EXCEPT !.started = TRUE]

teardown_skipped(c) == c

teardown(c) == [c EXCEPT !.encoder_running = FALSE, !.started = FALSE]


(***************************************************************************)
(* utilities/record.py and utilities/capture.py.  Each returns             *)
(* <<cam, media directory>>; now is the datetime.now() of make_filename.   *)
(***************************************************************************)
start_recording(c, cfg, dir, now) ==
    IF c.capturing_video THEN <<c, dir>>
    ELSE LET output_path == make_filename(c, cfg.video_output_path, now)
             c2 == [c EXCEPT !.current_video_path = Some(output_path),
                             !.encoder_running = TRUE,
                             !.capturing_video = TRUE]
         IN  <<set_status(c2, "video"), dir \cup {output_path}>>

stop_recording_unguarded(c, cfg, dir) ==
    LET running == c.encoder_running /\ c.current_video_path # None
        th == IF running THEN generate_thumbnail(c, "v", Get(c.current_video_path))
              ELSE <<c, <<>>>>
        c2 == IF running
              THEN [th[1] EXCEPT !.encoder_running = FALSE,
                                 !.current_video_path = None]
              ELSE c
        dir2 == IF running THEN dir \cup {th[2]} ELSE dir
        c3 == reset_motion_state([c2 EXCEPT !.capturing_video = FALSE])
    IN  <<set_status(c3, "ready"), dir2>>

stop_recording(c, cfg, dir) ==
    IF ~c.capturing_video THEN <<c, dir>>
    ELSE LET th == generate_thumbnail(c, "v", Get(c.current_video_path))
             c2 == IF c.encoder_running
                   THEN [th[1] EXCEPT !.encoder_running = FALSE,
                                      !.current_video_path = None]
                   ELSE c
             dir2 == IF c.encoder_running THEN dir \cup {th[2]} ELSE dir
             c3 == reset_motion_state([c2 EXCEPT !.capturing_video = FALSE])
         IN  <<set_status(c3, "ready"), dir2>>

toggle_cam_record(c, cfg, dir, now, status) ==
    IF status THEN start_recording(c, cfg, dir, now) ELSE stop_recording(c, cfg, dir)

capture_still_request(c, cfg, dir, now) ==
    LET image_path == make_filename(c, cfg.image_output_path, now)
        th == generate_thumbnail(c, "i", image_path)
    IN  <<th[1], dir \cup {image_path, th[2]}>>

(***************************************************************************)
(* utilities/motion_detect.py: the difference metric of two lores frames.  *)
(* A frame is one uint8 luma value; np.subtract and np.square of uint8     *)
(* arrays wrap modulo 256.                                                 *)
(***************************************************************************)
Pixels == {0, 3}
mse(cur, prev) ==
    LET d == (cur - prev) % 256 IN (d * d) % 256

(***************************************************************************)
(* State.                                                                  *)
(***************************************************************************)
VARIABLES
    cam,              \* the CameraCoreModel instance: flags, indexes, status
    config,           \* cam.config
    process_running,  \* CameraCoreModel.process_running
    command_queue,    \* CameraCoreModel.command_queue: <<code, param, arrival>>
    cmd_queue_lock,   \* holder of CameraCoreModel.cmd_queue_lock: "free", "reader", "main"
    fifo_fd,          \* the control pipe: "unset", "open", "closed"
    status_file,      \* contents of the status file
    motion_pipe,      \* characters written to the motion pipe, in order
    motion_log,       \* lines written to the motion log (monitor mode)
    media_dir,        \* names in the image/video output directory
    threads,          \* [preview, md]: "new", "alive", "done" (Thread objects)
    main_pc,          \* position of start_background_process
    next_cmd,         \* the main loop's local next_cmd: the last command popped (optional)
    reader_pc,        \* position of parse_incoming_commands
    incoming_cmd,     \* its local incoming_cmd (optional)
    md_pc,            \* position of motion_detection_thread: "start", "loop"
    md_prev,          \* its local prev (optional frame)
    md_init_count,    \* its local motion_init_count
    md_error,         \* the motion thread was ended by an exception
    inputs,           \* the texts a writer may put on the control pipe
    n_enq,            \* history: number of commands appended to the queue
    last_exec,        \* history: arrival number of the last command popped
    scen,             \* history: progress of the sequence md 1, ca 1, ca 0
    scen_sig          \* history: a "1" was written while scen = "ca1"

vars == <<cam, config, process_running, command_queue, cmd_queue_lock, fifo_fd,
          status_file, motion_pipe, motion_log, media_dir, threads, main_pc,
          next_cmd, reader_pc, incoming_cmd, md_pc, md_prev, md_init_count,
          md_error, inputs, n_enq, last_exec, scen, scen_sig>>

(***************************************************************************)
(* Inputs: pipe texts, configurations, clocks, directory listings.         *)
(***************************************************************************)
T_ru0 == <<"r", "u", " ", "0">>
T_ru1 == <<"r", "u", " ", "1">>
T_im  == <<"i", "m">>
T_ca1 == <<"c", "a", " ", "1">>
T_ca0 == <<"c", "a", " ", "0">>
T_md1 == <<"m", "d", " ", "1", "\n">>
T_md0 == <<"m", "d", " ", "0">>
T_mx0 == <<"m", "x", " ", "0">>
T_mx2 == <<"m", "x", " ", "2">>
T_empty == <<>>
T_bad == <<"t", "l", " ", "1">>
PipeTexts == {T_ru0, T_ru1, T_im, T_ca1, T_ca0, T_md1, T_md0, T_mx0, T_mx2,
              T_empty, T_bad}

StartFrames == 3
StopFrames == 2
Threshold == 7

ImageTemplate == <<"i", "%", "i", "_", "%", "s">>
VideoTemplate == <<"v", "%", "v", "_", "%", "s">>

DefaultConfig ==
    [motion_mode |-> "internal", motion_threshold |-> Threshold,
     motion_initframes |-> 0, motion_startframes |-> StartFrames,
     motion_stopframes |-> StopFrames, autostart |-> TRUE,
     motion_detection |-> FALSE,
     image_output_path |-> ImageTemplate, video_output_path |-> VideoTemplate]

Configs ==
    {DefaultConfig,
     [DefaultConfig EXCEPT !.autostart = FALSE]}

Clock(sec) == [year |-> 2024, month |-> 5, day |-> 17, hour |-> 9, minute |-> 30,
               second |-> sec, microsecond |-> 1500]
Clocks == {Clock(7)}

N_i2 == <<"a", ".", "i", "2", ".", "t", "h", ".", "j", "p", "g">>
N_v1 == <<"b", ".", "v", "1", ".", "t", "h", ".", "j", "p", "g">>
DaemonDirs == {{N_i2, N_v1}}

InitialCam ==
    [current_status |-> NoStatus, started |-> FALSE, encoder_running |-> FALSE,
     capturing_still |-> FALSE, capturing_video |-> FALSE,
     motion_detection |-> FALSE, timelapse_on |-> FALSE,
     detected_motion |-> FALSE, motion_still_count |-> 0,
     motion_active_count |-> 0, current_video_path |-> None,
     still_image_index |-> 0, video_file_index |-> 0]

\* The state at the start of CameraCoreModel.__init__'s make_filecounts call.
InitWith(texts, cfgs, dirs) ==
    /\ cam = InitialCam
    /\ config \in cfgs
    /\ process_running = FALSE
    /\ command_queue = <<>>
    /\ cmd_queue_lock = "free"
    /\ fifo_fd = "unset"
    /\ status_file = NoStatus
    /\ motion_pipe = <<>>
    /\ motion_log = <<>>
    /\ media_dir \in dirs
    /\ threads = [preview |-> "new", md |-> "new"]
    /\ main_pc = "init"
    /\ next_cmd = None
    /\ reader_pc = "new"
    /\ incoming_cmd = None
    /\ md_pc = "start"
    /\ md_prev = None
    /\ md_init_count = 0
    /\ md_error = FALSE
    /\ inputs = texts
    /\ n_enq = 0
    /\ last_exec = 0
    /\ scen = "boot"
    /\ scen_sig = FALSE

Init == InitWith(PipeTexts, Configs, DaemonDirs)


(***************************************************************************)
(* CameraCoreModel.__init__: the startup scan of the output directories    *)
(* and the autostart.  int() of a count that isdigit() accepted and that   *)
(* is no decimal number raises ValueError: the process ends.               *)
(***************************************************************************)
construct(c, cfg, dir) ==
    LET fc == make_filecounts(dir)
        c1 == [c EXCEPT !.still_image_index = fc.still_image_index,
                        !.video_file_index = fc.video_file_index]
    IN  IF cfg.autostart
        THEN [c1 EXCEPT !.started = TRUE,
                        !.motion_detection = cfg.motion_detection]
        ELSE c1

Construct ==
    /\ main_pc = "init"
    /\ IF make_filecounts(media_dir).ok
       THEN /\ cam' = construct(cam, config, media_dir)
            /\ main_pc' = "setup_fifo"
       ELSE /\ main_pc' = "init_failed"
            /\ UNCHANGED cam
    /\ UNCHANGED <<config, process_running, command_queue, cmd_queue_lock, fifo_fd,
                   status_file, motion_pipe, motion_log, media_dir, threads,
                   next_cmd, reader_pc, incoming_cmd, md_pc, md_prev,
                   md_init_count, md_error, inputs, n_enq, last_exec, scen, scen_sig>>

(***************************************************************************)
(* start_background_process, up to the main loop.                          *)
(***************************************************************************)
\* setup_fifo fails (pipe busy): teardown and return.
BootFail ==
    /\ main_pc = "setup_fifo"
    /\ fifo_fd' = "closed"
    /\ cam' = teardown(cam)
    /\ main_pc' = "exited"
    /\ UNCHANGED <<config, process_running, command_queue, cmd_queue_lock,
                   status_file, motion_pipe, motion_log, media_dir, threads,
                   next_cmd, reader_pc, incoming_cmd, md_pc, md_prev,
                   md_init_count, md_error, inputs, n_enq, last_exec, scen, scen_sig>>

\* setup_fifo succeeds; process_running; the three threads are started.
BootOk ==
    /\ main_pc = "setup_fifo"
    /\ fifo_fd' = "open"
    /\ process_running' = TRUE
    /\ reader_pc' = "read"
    /\ threads' = [preview |-> "alive", md |-> "alive"]
    /\ md_pc' = "start"
    /\ main_pc' = "boot_status"
    /\ UNCHANGED <<cam, config, command_queue, cmd_queue_lock, status_file,
                   motion_pipe, motion_log, media_dir, next_cmd, incoming_cmd,
                   md_prev, md_init_count, md_error, inputs, n_enq, last_exec,
                   scen, scen_sig>>

\* The main loop entered without the update_status_file of line 270.
BootStatusSkipped ==
    /\ main_pc = "boot_status"
    /\ scen' = "off"
    /\ main_pc' = "tick"
    /\ UNCHANGED <<cam, config, process_running, command_queue, cmd_queue_lock, fifo_fd,
                   status_file, motion_pipe, motion_log, media_dir, threads, next_cmd,
                   reader_pc, incoming_cmd, md_pc, md_prev, md_init_count,
                   md_error, inputs, n_enq, last_exec, scen_sig>>

\* update_status_file(cam) before the main loop.
BootStatus ==
    /\ main_pc = "boot_status"
    /\ LET u == update_status_file(cam, status_file) IN
       /\ cam' = u[1]
       /\ status_file' = u[2]
       /\ scen' = IF u[1].current_status = "ready" THEN "idle" ELSE "off"
    /\ main_pc' = "tick"
    /\ UNCHANGED <<config, process_running, command_queue, cmd_queue_lock, fifo_fd,
                   motion_pipe, motion_log, media_dir, threads, next_cmd,
                   reader_pc, incoming_cmd, md_pc, md_prev, md_init_count,
                   md_error, inputs, n_enq, last_exec, scen_sig>>

\* The signal handler on_sigint_sigterm.
Signal ==
    /\ process_running
    /\ process_running' = FALSE
    /\ UNCHANGED <<cam, config, command_queue, cmd_queue_lock, fifo_fd,
                   status_file, motion_pipe, motion_log, media_dir, threads,
                   main_pc, next_cmd, reader_pc, incoming_cmd, md_pc, md_prev,
                   md_init_count, md_error, inputs, n_enq, last_exec, scen, scen_sig>>

(***************************************************************************)
(* parse_incoming_commands (the pipe-reader thread).                       *)
(***************************************************************************)
ReaderExit ==
    /\ reader_pc = "read"
    /\ ~process_running
    /\ reader_pc' = "done"
    /\ UNCHANGED <<cam, config, process_running, command_queue, cmd_queue_lock,
                   fifo_fd, status_file, motion_pipe, motion_log, media_dir,
                   threads, main_pc, next_cmd, incoming_cmd, md_pc, md_prev,
                   md_init_count, md_error, inputs, n_enq, last_exec, scen, scen_sig>>

\* One read of the pipe.  The model lets a writer offer a valid command only
\* while fewer than MaxCmds were queued and the queue is shorter than MaxQueue.
ReaderRead(contents) ==
    /\ reader_pc = "read"
    /\ process_running
    /\ fifo_fd = "open"
    /\ LET incoming == read_pipe(contents) IN
       /\ incoming # None => n_enq < MaxCmds /\ Len(command_queue) < MaxQueue
       /\ incoming_cmd' = incoming
       /\ reader_pc' = IF incoming # None THEN "acquire" ELSE "read"
    /\ UNCHANGED <<cam, config, process_running, command_queue, cmd_queue_lock,
                   fifo_fd, status_file, motion_pipe, motion_log, media_dir,
                   threads, main_pc, next_cmd, md_pc, md_prev, md_init_count,
                   md_error, inputs, n_enq, last_exec, scen, scen_sig>>

ReaderNoAcquire ==
    /\ reader_pc = "acquire"
    /\ reader_pc' = "append"
    /\ UNCHANGED <<cam, config, process_running, command_queue, cmd_queue_lock,
                   fifo_fd, status_file, motion_pipe, motion_log, media_dir,
                   threads, main_pc, next_cmd, incoming_cmd, md_pc, md_prev,
                   md_init_count, md_error, inputs, n_enq, last_exec, scen, scen_sig>>

ReaderAcquire ==
    /\ reader_pc = "acquire"
    /\ cmd_queue_lock = "free"
    /\ cmd_queue_lock' = "reader"
    /\ reader_pc' = "append"
    /\ UNCHANGED <<cam, config, process_running, command_queue, fifo_fd,
                   status_file, motion_pipe, motion_log, media_dir, threads,
                   main_pc, next_cmd, incoming_cmd, md_pc, md_prev,
                   md_init_count, md_error, inputs, n_enq, last_exec, scen, scen_sig>>

\* command_queue.append(incoming_cmd); cmd_queue_lock.release().
ReaderAppend ==
    /\ reader_pc = "append"
    /\ command_queue' = Append(command_queue,
                               <<Get(incoming_cmd)[1], Get(incoming_cmd)[2], n_enq + 1>>)
    /\ n_enq' = n_enq + 1
    /\ cmd_queue_lock' = "free"
    /\ incoming_cmd' = None
    /\ reader_pc' = "read"
    /\ UNCHANGED <<cam, config, process_running, fifo_fd, status_file,
                   motion_pipe, motion_log, media_dir, threads, main_pc,
                   next_cmd, md_pc, md_prev, md_init_count, md_error, inputs,
                   last_exec, scen, scen_sig>>


(***************************************************************************)
(* execute_command for the codes other than ru, before its final           *)
(* update_status_file: <<cam, config, media directory>>.                   *)
(***************************************************************************)
execute_ungated(c, cfg, dir, cmd_code, cmd_param, now) ==
    IF cmd_code = im
    THEN LET r == capture_still_request(c, cfg, dir, now) IN <<r[1], cfg, r[2]>>
    ELSE IF cmd_code = ca
    THEN LET r == toggle_cam_record(c, cfg, dir, now, startswith(cmd_param, <<"1">>))
         IN  <<r[1], cfg, r[2]>>
    ELSE IF cmd_code = md
    THEN <<[c EXCEPT !.motion_detection = ~(cmd_param = <<"0">> \/ cmd_param = <<>>)],
           cfg, dir>>
    ELSE IF cmd_code = mx
    THEN <<c,
           IF cmd_param = <<"0">> THEN [cfg EXCEPT !.motion_mode = "internal"]
           ELSE IF cmd_param = <<"2">> THEN [cfg EXCEPT !.motion_mode = "monitor"]
           ELSE cfg,
           dir>>
    ELSE <<c, cfg, dir>>

execute_command(c, cfg, dir, cmd_code, cmd_param, now) ==
    IF c.current_status # "halted"
    THEN execute_ungated(c, cfg, dir, cmd_code, cmd_param, now)
    ELSE <<c, cfg, dir>>

(***************************************************************************)
(* The main loop of start_background_process (the dispatcher).             *)
(***************************************************************************)
\* command_queue.pop(0): <<element, rest>>.
pop_last(q) == <<q[Len(q)], SubSeq(q, 1, Len(q) - 1)>>
pop0(q) == <<Head(q), Tail(q)>>

IsHalt(cmd) == cmd[1] = ru /\ startswith(cmd[2], <<"0">>)
IsRun(cmd) == cmd[1] = ru /\ ~startswith(cmd[2], <<"0">>)

\* `while process_running` is false: leave the loop.
MainLeave ==
    /\ main_pc = "tick"
    /\ ~process_running
    /\ main_pc' = "shutdown"
    /\ UNCHANGED <<cam, config, process_running, command_queue, cmd_queue_lock,
                   fifo_fd, status_file, motion_pipe, motion_log, media_dir,
                   threads, next_cmd, reader_pc, incoming_cmd, md_pc, md_prev,
                   md_init_count, md_error, inputs, n_enq, last_exec, scen, scen_sig>>

\* The tick goes on to the lock without testing the queue.
MainTestUnchecked ==
    /\ main_pc = "tick"
    /\ process_running
    /\ main_pc' = "try_lock"
    /\ UNCHANGED <<cam, config, process_running, command_queue, cmd_queue_lock,
                   fifo_fd, status_file, motion_pipe, motion_log, media_dir,
                   threads, next_cmd, reader_pc, incoming_cmd, md_pc, md_prev,
                   md_init_count, md_error, inputs, n_enq, last_exec, scen, scen_sig>>

\* `(cmd_queue)` is true.
MainTest ==
    /\ main_pc = "tick"
    /\ process_running
    /\ command_queue # <<>>
    /\ main_pc' = "try_lock"
    /\ UNCHANGED <<cam, config, process_running, command_queue, cmd_queue_lock,
                   fifo_fd, status_file, motion_pipe, motion_log, media_dir,
                   threads, next_cmd, reader_pc, incoming_cmd, md_pc, md_prev,
                   md_init_count, md_error, inputs, n_enq, last_exec, scen, scen_sig>>

MainLockBlocking ==
    /\ main_pc = "try_lock"
    /\ cmd_queue_lock = "free"
    /\ cmd_queue_lock' = "main"
    /\ main_pc' = IF cam.current_status # NoStatus THEN "pop" ELSE "tick"
    /\ UNCHANGED <<cam, config, process_running, command_queue, fifo_fd,
                   status_file, motion_pipe, motion_log, media_dir, threads,
                   next_cmd, reader_pc, incoming_cmd, md_pc, md_prev,
                   md_init_count, md_error, inputs, n_enq, last_exec, scen, scen_sig>>

\* `cmd_queue_lock.acquire(blocking=False) and cam.current_status`.
MainTryLock ==
    /\ main_pc = "try_lock"
    /\ IF cmd_queue_lock = "free"
       THEN /\ cmd_queue_lock' = "main"
            /\ main_pc' = IF cam.current_status # NoStatus THEN "pop" ELSE "tick"
       ELSE /\ main_pc' = "tick"
            /\ UNCHANGED cmd_queue_lock
    /\ UNCHANGED <<cam, config, process_running, command_queue, fifo_fd,
                   status_file, motion_pipe, motion_log, media_dir, threads,
                   next_cmd, reader_pc, incoming_cmd, md_pc, md_prev,
                   md_init_count, md_error, inputs, n_enq, last_exec, scen, scen_sig>>

\* next_cmd = command_queue.pop(0); cmd_queue_lock.release().
MainPop ==
    /\ main_pc = "pop"
    /\ command_queue # <<>>
    /\ LET r == pop0(command_queue) IN
       /\ next_cmd' = Some(r[1])
       /\ command_queue' = r[2]
       /\ last_exec' = r[1][3]
    /\ cmd_queue_lock' = "free"
    /\ main_pc' = "exec"
    /\ UNCHANGED <<cam, config, process_running, fifo_fd, status_file,
                   motion_pipe, motion_log, media_dir, threads, reader_pc,
                   incoming_cmd, md_pc, md_prev, md_init_count, md_error,
                   inputs, n_enq, scen, scen_sig>>

\* ru 0, first part: current_status = "halted", then the joins begin.
ExecHaltBegin ==
    /\ main_pc = "exec"
    /\ IsHalt(Get(next_cmd))
    /\ cam' = [cam EXCEPT !.current_status = "halted"]
    /\ main_pc' = "halt_join"
    /\ scen' = "off"
    /\ UNCHANGED <<config, process_running, command_queue, cmd_queue_lock, fifo_fd,
                   status_file, motion_pipe, motion_log, media_dir, threads,
                   next_cmd, reader_pc, incoming_cmd, md_pc, md_prev,
                   md_init_count, md_error, inputs, n_enq, last_exec, scen_sig>>

\* `for t in threads: t.join()` on a thread that was never started raises
\* RuntimeError, which ends the main thread.
ExecHaltJoinError ==
    /\ main_pc = "halt_join"
    /\ \/ threads.preview = "new"
       \/ threads.preview = "done" /\ threads.md = "new"
    /\ main_pc' = "crashed"
    /\ UNCHANGED <<cam, config, process_running, command_queue, cmd_queue_lock,
                   fifo_fd, status_file, motion_pipe, motion_log, media_dir,
                   threads, next_cmd, reader_pc, incoming_cmd, md_pc, md_prev,
                   md_init_count, md_error, inputs, n_enq, last_exec, scen, scen_sig>>

\* ru 0 without the joins: the threads are replaced whatever they do.
ExecHaltNoJoin ==
    /\ main_pc = "halt_join"
    /\ threads' = [preview |-> "new", md |-> "new"]
    /\ LET u == update_status_file(stop_all(cam), status_file) IN
       /\ cam' = u[1]
       /\ status_file' = u[2]
    /\ main_pc' = "tick"
    /\ UNCHANGED <<config, process_running, command_queue, cmd_queue_lock, fifo_fd,
                   motion_pipe, motion_log, media_dir, next_cmd, reader_pc,
                   incoming_cmd, md_pc, md_prev, md_init_count, md_error, inputs,
                   n_enq, last_exec, scen, scen_sig>>

\* ru 0, second part: both joins returned; fresh threads, stop_all,
\* update_status_file.
ExecHaltFinish ==
    /\ main_pc = "halt_join"
    /\ threads.preview = "done" /\ threads.md = "done"
    /\ threads' = [preview |-> "new", md |-> "new"]
    /\ LET u == update_status_file(stop_all(cam), status_file) IN
       /\ cam' = u[1]
       /\ status_file' = u[2]
    /\ main_pc' = "tick"
    /\ UNCHANGED <<config, process_running, command_queue, cmd_queue_lock, fifo_fd,
                   motion_pipe, motion_log, media_dir, next_cmd, reader_pc,
                   incoming_cmd, md_pc, md_prev, md_init_count, md_error, inputs,
                   n_enq, last_exec, scen, scen_sig>>

\* ru with another parameter: restart, set_status, start the threads that are
\* not alive.  t.start() on a thread that already ran raises RuntimeError.
ExecRun ==
    /\ main_pc = "exec"
    /\ IsRun(Get(next_cmd))
    /\ scen' = "off"
    /\ LET c1 == set_status(restart(cam), NoStatus)
           pv == IF threads.preview = "new" THEN "alive" ELSE threads.preview
           raised == threads.preview = "done" \/ threads.md = "done"
           mdt == IF threads.preview # "done" /\ threads.md = "new"
                  THEN "alive" ELSE threads.md
           u == update_status_file(c1, status_file)
       IN  /\ threads' = [preview |-> pv, md |-> mdt]
           /\ md_pc' = IF mdt = "alive" /\ threads.md = "new" THEN "start" ELSE md_pc
           /\ IF raised
              THEN /\ cam' = c1
                   /\ main_pc' = "crashed"
                   /\ UNCHANGED status_file
              ELSE /\ cam' = u[1]
                   /\ status_file' = u[2]
                   /\ main_pc' = "tick"
    /\ UNCHANGED <<config, process_running, command_queue, cmd_queue_lock, fifo_fd,
                   motion_pipe, motion_log, media_dir, next_cmd, reader_pc, incoming_cmd,
                   md_prev, md_init_count, md_error, inputs, n_enq, last_exec,
                   scen_sig>>

ScenNext(cur, cmd) ==
    IF cur = "idle" /\ cmd[1] = md /\ cmd[2] = <<"1">> THEN "md1"
    ELSE IF cur = "md1" /\ cmd[1] = ca /\ cmd[2] = <<"1">> THEN "ca1"
    ELSE IF cur = "ca1" /\ cmd[1] = ca /\ cmd[2] = <<"0">> THEN "ca0"
    ELSE "off"

\* Every other command, with the update_status_file that ends execute_command.
ExecOther(now) ==
    /\ main_pc = "exec"
    /\ Get(next_cmd)[1] # ru
    /\ LET cmd == Get(next_cmd) IN
       \E r \in {execute_command(cam, config, media_dir, cmd[1], cmd[2], now)} :
          \E u \in {update_status_file(r[1], status_file)} :
             /\ cam' = u[1]
             /\ status_file' = u[2]
             /\ config' = r[2]
             /\ media_dir' = r[3]
             /\ scen' = ScenNext(scen, cmd)
    /\ main_pc' = "tick"
    /\ UNCHANGED <<process_running, command_queue, cmd_queue_lock, fifo_fd,
                   motion_pipe, motion_log, threads, next_cmd, reader_pc, incoming_cmd,
                   md_pc, md_prev, md_init_count, md_error, inputs, n_enq,
                   last_exec, scen_sig>>

(***************************************************************************)
(* start_background_process after the main loop: the shutdown sequence.    *)
(***************************************************************************)
ShutdownStatus ==
    /\ main_pc = "shutdown"
    /\ cam' = [cam EXCEPT !.current_status = "halted"]
    /\ main_pc' = "join_reader"
    /\ UNCHANGED <<config, process_running, command_queue, cmd_queue_lock, fifo_fd,
                   status_file, motion_pipe, motion_log, media_dir, threads,
                   next_cmd, reader_pc, incoming_cmd, md_pc, md_prev,
                   md_init_count, md_error, inputs, n_enq, last_exec, scen, scen_sig>>

ShutdownJoinReader ==
    /\ main_pc = "join_reader"
    /\ reader_pc = "done"
    /\ main_pc' = "join_threads"
    /\ UNCHANGED <<cam, config, process_running, command_queue, cmd_queue_lock,
                   fifo_fd, status_file, motion_pipe, motion_log, media_dir,
                   threads, next_cmd, reader_pc, incoming_cmd, md_pc, md_prev,
                   md_init_count, md_error, inputs, n_enq, last_exec, scen, scen_sig>>

\* `if t.is_alive(): t.join()` for both threads, then cam.teardown().
ShutdownTeardown ==
    /\ main_pc = "join_threads"
    /\ threads.preview # "alive" /\ threads.md # "alive"
    /\ cam' = teardown(cam)
    /\ main_pc' = "final_status"
    /\ UNCHANGED <<config, process_running, command_queue, cmd_queue_lock, fifo_fd,
                   status_file, motion_pipe, motion_log, media_dir, threads,
                   next_cmd, reader_pc, incoming_cmd, md_pc, md_prev,
                   md_init_count, md_error, inputs, n_enq, last_exec, scen, scen_sig>>

ShutdownStatusFile ==
    /\ main_pc = "final_status"
    /\ LET u == update_status_file(cam, status_file) IN
       /\ cam' = u[1]
       /\ status_file' = u[2]
    /\ main_pc' = "close_fifo"
    /\ UNCHANGED <<config, process_running, command_queue, cmd_queue_lock, fifo_fd,
                   motion_pipe, motion_log, media_dir, threads, next_cmd,
                   reader_pc, incoming_cmd, md_pc, md_prev, md_init_count,
                   md_error, inputs, n_enq, last_exec, scen, scen_sig>>

ShutdownClose ==
    /\ main_pc = "close_fifo"
    /\ fifo_fd' = "closed"
    /\ main_pc' = "exited"
    /\ UNCHANGED <<cam, config, process_running, command_queue, cmd_queue_lock,
                   status_file, motion_pipe, motion_log, media_dir, threads,
                   next_cmd, reader_pc, incoming_cmd, md_pc, md_prev,
                   md_init_count, md_error, inputs, n_enq, last_exec, scen, scen_sig>>


(***************************************************************************)
(* show_preview (the previewer thread).                                    *)
(***************************************************************************)
PreviewExit ==
    /\ threads.preview = "alive"
    /\ cam.current_status = "halted"
    /\ threads' = [threads EXCEPT !.preview = "done"]
    /\ UNCHANGED <<cam, config, process_running, command_queue, cmd_queue_lock,
                   fifo_fd, status_file, motion_pipe, motion_log, media_dir,
                   main_pc, next_cmd, reader_pc, incoming_cmd, md_pc, md_prev,
                   md_init_count, md_error, inputs, n_enq, last_exec, scen, scen_sig>>

\* One iteration: capture_request, generate_preview, release.
PreviewIter ==
    /\ threads.preview = "alive"
    /\ cam.current_status # "halted"
    /\ UNCHANGED vars

(***************************************************************************)
(* motion_detection_thread.                                                *)
(***************************************************************************)
\* Before the loop: send_motion_command("9"), the locals.
MotionStartNoReset ==
    /\ threads.md = "alive"
    /\ md_pc = "start"
    /\ md_init_count' = config.motion_initframes
    /\ md_prev' = None
    /\ md_pc' = "loop"
    /\ UNCHANGED <<cam, config, process_running, command_queue, cmd_queue_lock,
                   fifo_fd, status_file, motion_pipe, motion_log, media_dir,
                   threads, main_pc, next_cmd, reader_pc, incoming_cmd, md_error,
                   inputs, n_enq, last_exec, scen, scen_sig>>

MotionStart ==
    /\ threads.md = "alive"
    /\ md_pc = "start"
    /\ motion_pipe' = Append(motion_pipe, "9")
    /\ md_init_count' = config.motion_initframes
    /\ md_prev' = None
    /\ md_pc' = "loop"
    /\ UNCHANGED <<cam, config, process_running, command_queue, cmd_queue_lock,
                   fifo_fd, status_file, motion_log, media_dir, threads, main_pc,
                   next_cmd, reader_pc, incoming_cmd, md_error, inputs, n_enq,
                   last_exec, scen, scen_sig>>

MotionExit ==
    /\ threads.md = "alive"
    /\ md_pc = "loop"
    /\ cam.current_status = "halted"
    /\ threads' = [threads EXCEPT !.md = "done"]
    /\ UNCHANGED <<cam, config, process_running, command_queue, cmd_queue_lock,
                   fifo_fd, status_file, motion_pipe, motion_log, media_dir,
                   main_pc, next_cmd, reader_pc, incoming_cmd, md_pc, md_prev,
                   md_init_count, md_error, inputs, n_enq, last_exec, scen, scen_sig>>

\* The scoring of one frame against prev ("Main processing"):
\* [cam, signal (optional character), event (optional log line)].
score_start_at_first(c, cfg, cur, prev) ==
    IF mse(cur, prev) > cfg.motion_threshold /\ ~c.detected_motion
    THEN [cam |-> [c EXCEPT !.motion_still_count = 0, !.detected_motion = TRUE,
                            !.motion_active_count = c.motion_active_count + 1],
          event |-> Some("start")]
    ELSE [cam |-> c, event |-> None]

score_stop_at_first(c, cfg, cur, prev) ==
    IF mse(cur, prev) > cfg.motion_threshold
    THEN IF ~c.detected_motion
         THEN LET n == c.motion_active_count + 1 IN
              [cam |-> [c EXCEPT !.motion_still_count = 0,
                                 !.motion_active_count = n,
                                 !.detected_motion = (n >= cfg.motion_startframes)],
               event |-> IF n >= cfg.motion_startframes THEN Some("start") ELSE None]
         ELSE [cam |-> [c EXCEPT !.motion_still_count = 0], event |-> None]
    ELSE IF c.detected_motion
         THEN [cam |-> [c EXCEPT !.motion_active_count = 0, !.detected_motion = FALSE,
                                 !.motion_still_count = c.motion_still_count + 1],
               event |-> Some("stop")]
         ELSE [cam |-> [c EXCEPT !.motion_active_count = 0], event |-> None]

score_recording(c, cfg, cur, prev) ==
    LET r == score_start_at_first(c, cfg, cur, prev)
    IN  [cam |-> [r.cam EXCEPT !.capturing_video = r.cam.detected_motion],
         event |-> r.event]

score(c, cfg, cur, prev) ==
    IF mse(cur, prev) > cfg.motion_threshold
    THEN IF ~c.detected_motion
         THEN LET n == c.motion_active_count + 1 IN
              [cam |-> [c EXCEPT !.motion_still_count = 0,
                                 !.motion_active_count = n,
                                 !.detected_motion = (n >= cfg.motion_startframes)],
               event |-> IF n >= cfg.motion_startframes THEN Some("start") ELSE None]
         ELSE [cam |-> [c EXCEPT !.motion_still_count = 0], event |-> None]
    ELSE IF c.detected_motion
         THEN LET n == c.motion_still_count + 1 IN
              [cam |-> [c EXCEPT !.motion_active_count = 0,
                                 !.motion_still_count = n,
                                 !.detected_motion = ~(n >= cfg.motion_stopframes)],
               event |-> IF n >= cfg.motion_stopframes THEN Some("stop") ELSE None]
         ELSE [cam |-> [c EXCEPT !.motion_active_count = 0], event |-> None]

\* What a start/stop event writes: to the motion pipe (internal mode) or to
\* the motion log (monitor mode).
pipe_after(pipe, cfg, event) ==
    IF event # None /\ cfg.motion_mode = "internal"
    THEN Append(pipe, IF Get(event) = "start" THEN "1" ELSE "0")
    ELSE pipe
log_after(log, cfg, event) ==
    IF event # None /\ cfg.motion_mode = "monitor"
    THEN Append(log, Get(event))
    ELSE log

\* One iteration of the loop on the frame cur.  The model stops offering
\* frames once MaxSignals start/stop events were written.
MotionIter(cur) ==
    /\ threads.md = "alive"
    /\ md_pc = "loop"
    /\ cam.current_status # "halted"
    /\ Len(motion_pipe) + Len(motion_log) < MaxSignals + 1
    /\ IF md_init_count > 1 /\ config.motion_mode # "monitor"
       THEN \* warm-up; `if prev:` on an array raises ValueError
            IF md_prev # None
            THEN /\ threads' = [threads EXCEPT !.md = "done"]
                 /\ md_error' = TRUE
                 /\ UNCHANGED <<cam, motion_pipe, motion_log, md_prev,
                                md_init_count, scen_sig>>
            ELSE /\ md_prev' = Some(cur)
                 /\ UNCHANGED <<cam, motion_pipe, motion_log, threads,
                                md_init_count, md_error, scen_sig>>
       ELSE /\ md_init_count' = IF md_init_count > 1 THEN 0 ELSE md_init_count
            /\ md_prev' = Some(cur)
            /\ IF cam.motion_detection /\ md_prev # None
               THEN LET r == score(cam, config, cur, Get(md_prev)) IN
                    /\ cam' = r.cam
                    /\ motion_pipe' = pipe_after(motion_pipe, config, r.event)
                    /\ motion_log' = log_after(motion_log, config, r.event)
                    /\ scen_sig' = (scen_sig \/ (scen = "ca1" /\ r.event = Some("start")
                                                 /\ config.motion_mode = "internal"))
               ELSE UNCHANGED <<cam, motion_pipe, motion_log, scen_sig>>
            /\ UNCHANGED <<threads, md_error>>
    /\ UNCHANGED <<config, process_running, command_queue, cmd_queue_lock, fifo_fd,
                   status_file, media_dir, main_pc, next_cmd, reader_pc,
                   incoming_cmd, md_pc, inputs, n_enq, last_exec, scen>>

(***************************************************************************)
(* The daemon.                                                             *)
(***************************************************************************)
Next ==
    \/ Construct
    \/ BootFail
    \/ BootOk
    \/ BootStatus
    \/ Signal
    \/ ReaderExit
    \/ \E contents \in inputs : ReaderRead(contents)
    \/ ReaderAcquire
    \/ ReaderAppend
    \/ MainLeave
    \/ MainTest
    \/ MainTryLock
    \/ MainPop
    \/ ExecHaltBegin
    \/ ExecHaltJoinError
    \/ ExecHaltFinish
    \/ ExecRun
    \/ \E now \in Clocks : ExecOther(now)
    \/ ShutdownStatus
    \/ ShutdownJoinReader
    \/ ShutdownTeardown
    \/ ShutdownStatusFile
    \/ ShutdownClose
    \/ PreviewExit
    \/ PreviewIter
    \/ MotionStart
    \/ MotionExit
    \/ \E cur \in Pixels : MotionIter(cur)

Spec == Init /\ [][Next]_vars

(***************************************************************************)
(* The pipe reader alone, in a daemon that runs and idles with the default *)
(* configuration.  The writers of the pipe send "im" and one other text,   *)
(* any text of length <= MaxTextLen over a small alphabet.                 *)
(***************************************************************************)
MaxTextLen == 4
TextAlphabet == {"c", "a", "i", "m", " ", "1"}
ParseTexts == UNION {[1..n -> TextAlphabet] : n \in 0..MaxTextLen}

\* The daemon after Construct, BootOk and BootStatus, nothing else done.
RunningIdle(cfg, c) ==
    /\ cam = c
    /\ config = cfg
    /\ process_running = TRUE
    /\ command_queue = <<>>
    /\ cmd_queue_lock = "free"
    /\ fifo_fd = "open"
    /\ status_file = c.current_status
    /\ motion_pipe = <<>>
    /\ motion_log = <<>>
    /\ threads = [preview |-> "alive", md |-> "alive"]
    /\ main_pc = "tick"
    /\ next_cmd = None
    /\ reader_pc = "read"
    /\ incoming_cmd = None
    /\ md_pc = "start"
    /\ md_prev = None
    /\ md_init_count = 0
    /\ md_error = FALSE
    /\ n_enq = 0
    /\ last_exec = 0
    /\ scen = "idle"
    /\ scen_sig = FALSE

BootedCam(cfg, dir) == update_status_file(construct(InitialCam, cfg, dir), NoStatus)[1]

InitParse ==
    /\ media_dir \in DaemonDirs
    /\ inputs \in {{t, T_im} : t \in ParseTexts}
    /\ RunningIdle(DefaultConfig, BootedCam(DefaultConfig, media_dir))

NextParse ==
    \/ \E contents \in inputs : ReaderRead(contents)
    \/ ReaderAcquire
    \/ ReaderAppend

SpecParse == InitParse /\ [][NextParse]_vars

(***************************************************************************)
(* update_status_file alone, on every combination of the flags that        *)
(* set_status reads and on several previous status tokens.                 *)
(***************************************************************************)
StatusCams ==
    {[InitialCam EXCEPT !.started = f[1], !.capturing_still = f[2],
                        !.capturing_video = f[3], !.motion_detection = f[4],
                        !.timelapse_on = f[5], !.current_status = st,
                        !.still_image_index = 1, !.video_file_index = 1] :
        f \in [1..5 -> BOOLEAN],
        st \in {NoStatus, "ready", "halted", "md_video", "Error"}}

InitStatus ==
    /\ cam \in StatusCams
    /\ config = DefaultConfig
    /\ process_running = TRUE
    /\ command_queue = <<>>
    /\ cmd_queue_lock = "free"
    /\ fifo_fd = "open"
    /\ status_file \in {NoStatus, "ready"}
    /\ motion_pipe = <<>>
    /\ motion_log = <<>>
    /\ media_dir = {}
    /\ threads = [preview |-> "alive", md |-> "alive"]
    /\ main_pc = "boot_status"
    /\ next_cmd = None
    /\ reader_pc = "read"
    /\ incoming_cmd = None
    /\ md_pc = "start"
    /\ md_prev = None
    /\ md_init_count = 0
    /\ md_error = FALSE
    /\ inputs = {}
    /\ n_enq = 0
    /\ last_exec = 0
    /\ scen = "boot"
    /\ scen_sig = FALSE

NextStatus == BootStatus

SpecStatus == InitStatus /\ [][NextStatus]_vars

(***************************************************************************)
(* The constructor alone, on every listing of the output directories made  *)
(* of these names: thumbnails of stills, of a timelapse and of videos, a   *)
(* two-digit count, an unknown type, a missing count, a letter as count,   *)
(* SUPERSCRIPT TWO as count, and a file that is no thumbnail.              *)
(***************************************************************************)
N_i3 == <<"c", ".", "i", "3", ".", "t", "h", ".", "j", "p", "g">>
N_i7 == <<"d", ".", "i", "7", ".", "t", "h", ".", "j", "p", "g">>
N_t9 == <<"e", ".", "t", "9", ".", "t", "h", ".", "j", "p", "g">>
N_v12 == <<"f", ".", "v", "1", "2", ".", "t", "h", ".", "j", "p", "g">>
N_x4 == <<"g", ".", "x", "4", ".", "t", "h", ".", "j", "p", "g">>
N_nocount == <<"h", ".", "i", ".", "t", "h", ".", "j", "p", "g">>
N_alpha == <<"k", ".", "i", "a", ".", "t", "h", ".", "j", "p", "g">>
N_super == <<"m", ".", "i", "^2", ".", "t", "h", ".", "j", "p", "g">>
N_plain == <<"n", ".", "i", "8", ".", "j", "p", "g">>
ScanNames == {N_i2, N_v1, N_i3, N_i7, N_t9, N_v12, N_x4, N_nocount, N_alpha,
              N_super, N_plain}

InitFilecounts == InitWith(PipeTexts, {DefaultConfig}, SUBSET ScanNames)

NextFilecounts == Construct

SpecFilecounts == InitFilecounts /\ [][NextFilecounts]_vars

(***************************************************************************)
(* The reader and the dispatcher of a running daemon whose image and video *)
(* path templates are any text of length <= MaxTemplateLen over %, v, i    *)
(* and x; the pipe carries "ca 1" and "im".                                *)
(***************************************************************************)
MaxTemplateLen == 3
TemplateAlphabet == {"%", "v", "i", "x"}
Templates == UNION {[1..n -> TemplateAlphabet] : n \in 0..MaxTemplateLen}

TemplateConfig(t) ==
    [DefaultConfig EXCEPT !.image_output_path = t, !.video_output_path = t]

InitFilename ==
    /\ media_dir \in DaemonDirs
    /\ inputs = {T_ca1, T_im}
    /\ \E t \in Templates :
          RunningIdle(TemplateConfig(t), BootedCam(TemplateConfig(t), media_dir))

NextFilename ==
    \/ \E contents \in inputs : ReaderRead(contents)
    \/ ReaderAcquire
    \/ ReaderAppend
    \/ MainTest
    \/ MainTryLock
    \/ MainPop
    \/ \E now \in Clocks : ExecOther(now)

SpecFilename == InitFilename /\ [][NextFilename]_vars

(***************************************************************************)
(* The daemon from the state in which a first "ca 1" has started a         *)
(* recording; the pipe then carries halts, runs and further ca commands.   *)
(***************************************************************************)
RecordingStart(c, cfg, dir, now) ==
    LET r == execute_command(c, cfg, dir, ca, <<"1">>, now)
    IN  <<update_status_file(r[1], NoStatus)[1], r[3]>>

InitRecording ==
    /\ \E dir \in DaemonDirs, now \in Clocks :
          \E c \in {BootedCam(DefaultConfig, dir)} :
             \E r \in {RecordingStart(c, DefaultConfig, dir, now)} :
                cam = r[1] /\ media_dir = r[2]
    /\ config = DefaultConfig
    /\ process_running = TRUE
    /\ command_queue = <<>>
    /\ cmd_queue_lock = "free"
    /\ fifo_fd = "open"
    /\ status_file = cam.current_status
    /\ motion_pipe = <<"9">>
    /\ motion_log = <<>>
    /\ threads = [preview |-> "alive", md |-> "alive"]
    /\ main_pc = "tick"
    /\ next_cmd = None
    /\ reader_pc = "read"
    /\ incoming_cmd = None
    /\ md_pc = "loop"
    /\ md_prev = None
    /\ md_init_count = 0
    /\ md_error = FALSE
    /\ inputs = {T_ru0, T_ru1, T_ca1, T_ca0}
    /\ n_enq = 0
    /\ last_exec = 0
    /\ scen = "off"
    /\ scen_sig = FALSE

NextRecording ==
    \/ Signal
    \/ ReaderExit
    \/ \E contents \in inputs : ReaderRead(contents)
    \/ ReaderAcquire
    \/ ReaderAppend
    \/ MainLeave
    \/ MainTest
    \/ MainTryLock
    \/ MainPop
    \/ ExecHaltBegin
    \/ ExecHaltJoinError
    \/ ExecHaltFinish
    \/ ExecRun
    \/ \E now \in Clocks : ExecOther(now)
    \/ ShutdownStatus
    \/ ShutdownJoinReader
    \/ ShutdownTeardown
    \/ ShutdownStatusFile
    \/ ShutdownClose
    \/ PreviewExit
    \/ PreviewIter
    \/ MotionStart
    \/ MotionExit
    \/ \E cur \in Pixels : MotionIter(cur)

SpecRecording == InitRecording /\ [][NextRecording]_vars

(***************************************************************************)
(* A caller of cam.set_status(token) with an explicit token, followed by   *)
(* update_status_file, on every combination of the flags.                  *)
(***************************************************************************)
ExplicitTokens == ErrorTokens \cup {"ready", "video"}

SetStatus(status) ==
    /\ main_pc = "set_status"
    /\ cam' = set_status(cam, status)
    /\ main_pc' = "boot_status"
    /\ UNCHANGED <<config, process_running, command_queue, cmd_queue_lock, fifo_fd,
                   status_file, motion_pipe, motion_log, media_dir, threads,
                   next_cmd, reader_pc, incoming_cmd, md_pc, md_prev,
                   md_init_count, md_error, inputs, n_enq, last_exec, scen, scen_sig>>

InitSticky ==
    /\ cam \in StatusCams
    /\ config = DefaultConfig
    /\ process_running = TRUE
    /\ command_queue = <<>>
    /\ cmd_queue_lock = "free"
    /\ fifo_fd = "open"
    /\ status_file = NoStatus
    /\ motion_pipe = <<>>
    /\ motion_log = <<>>
    /\ media_dir = {}
    /\ threads = [preview |-> "alive", md |-> "alive"]
    /\ main_pc = "set_status"
    /\ next_cmd = None
    /\ reader_pc = "read"
    /\ incoming_cmd = None
    /\ md_pc = "start"
    /\ md_prev = None
    /\ md_init_count = 0
    /\ md_error = FALSE
    /\ inputs = {}
    /\ n_enq = 0
    /\ last_exec = 0
    /\ scen = "boot"
    /\ scen_sig = FALSE

NextSticky ==
    \/ \E status \in ExplicitTokens : SetStatus(status)
    \/ BootStatus

SpecSticky == InitSticky /\ [][NextSticky]_vars


(***************************************************************************)
(* Properties.                                                             *)
(***************************************************************************)
InLoop == main_pc \in {"tick", "try_lock", "pop", "exec"}
Executing == main_pc \in {"exec", "halt_join"}

\* C1: commands are executed in the order in which the pipe reader queued
\* them, one at a time and each at most once: the arrival numbers waiting in
\* the queue are exactly the ones after the last command popped, in order;
\* the command in the dispatcher's hand is the last one popped; and the
\* dispatcher pops only when no command is being executed.
C1_FifoOrder ==
    /\ \A k \in 1..Len(command_queue) : command_queue[k][3] = last_exec + k
    /\ n_enq = last_exec + Len(command_queue)
    /\ next_cmd # None => Get(next_cmd)[3] = last_exec
    /\ next_cmd = None => last_exec = 0
    /\ Executing => next_cmd # None
    /\ main_pc = "pop" => cmd_queue_lock = "main" /\ command_queue # <<>>

\* Two commands were executed in turn while a third one arrived.
C1_Witness ==
    /\ last_exec = 2
    /\ main_pc = "exec"
    /\ Len(command_queue) = 1
    /\ reader_pc = "read"

\* The command a text stands for: the text without its trailing whitespace,
\* split at fixed positions.
StrippedLen(t) ==
    IF \E k \in 1..Len(t) : t[k] \notin Whitespace
    THEN CHOOSE k \in 1..Len(t) :
            t[k] \notin Whitespace /\ \A j \in (k + 1)..Len(t) : t[j] \in Whitespace
    ELSE 0
ExpectedCommand(t) ==
    LET n == StrippedLen(t) IN
    IF n >= 2 /\ <<t[1], t[2]>> \in {<<"c", "a">>, <<"i", "m">>, <<"m", "d">>,
                                     <<"m", "x">>, <<"r", "u">>}
    THEN Some(<<<<t[1], t[2]>>, [k \in 1..(n - 3) |-> t[k + 3]]>>)
    ELSE None

\* C2: a pipe read whose text, stripped of trailing whitespace, is not empty
\* and starts with one of the five codes yields (first two characters,
\* characters from index 3 on), and exactly that command is then appended to
\* the queue; any other text yields nothing and the read changes nothing.
C2_Parser ==
    [][/\ \A t \in inputs : ReaderRead(t) =>
            /\ incoming_cmd' = ExpectedCommand(t)
            /\ UNCHANGED <<command_queue, cam, config, status_file, media_dir>>
            /\ ExpectedCommand(t) = None => UNCHANGED vars
       /\ reader_pc = "append" /\ reader_pc' # "append" =>
            /\ command_queue' = Append(command_queue,
                   <<Get(incoming_cmd)[1], Get(incoming_cmd)[2], n_enq + 1>>)
            /\ UNCHANGED <<cam, config, status_file, media_dir>>
       /\ Len(command_queue') > Len(command_queue) => reader_pc = "append"
      ]_vars

\* "im" and then a ca with parameter "1" were read and queued.
C2_Witness ==
    /\ Len(command_queue) = 2
    /\ command_queue[1] = <<im, <<>>, 1>>
    /\ command_queue[2] = <<ca, <<"1">>, 2>>
    /\ reader_pc = "read"

\* C3: executing a command other than ru while the status is "halted" changes
\* no capture flag, no motion-detection flag, no signalling mode, no file index
\* and writes no file to the media directory.
C3_HaltedRejects ==
    [][(/\ main_pc = "exec"
        /\ main_pc' # "exec"
        /\ cam.current_status = "halted"
        /\ Get(next_cmd)[1] # ru)
       => /\ cam'.capturing_still = cam.capturing_still
          /\ cam'.capturing_video = cam.capturing_video
          /\ cam'.timelapse_on = cam.timelapse_on
          /\ cam'.motion_detection = cam.motion_detection
          /\ cam'.detected_motion = cam.detected_motion
          /\ config'.motion_mode = config.motion_mode
          /\ cam'.still_image_index = cam.still_image_index
          /\ cam'.video_file_index = cam.video_file_index
          /\ media_dir' = media_dir
          /\ cam'.current_status = "halted"
      ]_vars

\* A halt was executed first and an im second: the daemon is still halted and
\* the still index is the one the startup scan found.
C3_Witness ==
    /\ main_pc = "tick"
    /\ cam.current_status = "halted"
    /\ next_cmd # None
    /\ Get(next_cmd)[1] = im
    /\ last_exec = 2
    /\ cam.still_image_index = 3

\* The precedence table of the status tokens.
StatusTable(run, still, video, mdet, tl) ==
    LET col == 1 + (IF mdet THEN 1 ELSE 0) + (IF tl THEN 2 ELSE 0) IN
    IF ~run THEN "halted"
    ELSE IF still THEN "image"
    ELSE IF video THEN <<"video", "md_video", "tl_video", "tl_md_video">>[col]
    ELSE <<"ready", "md_ready", "timelapse", "tl_md_ready">>[col]

\* C4: the status that update_status_file derives and writes is, for every
\* combination of (camera running, still in progress, video in progress,
\* motion detection enabled, timelapse on) and whatever the status was before,
\* the token of the precedence table: halted; image; the video row; the idle
\* row.
C4_StatusTable ==
    main_pc = "tick" =>
        /\ cam.current_status = StatusTable(cam.started, cam.capturing_still,
                                            cam.capturing_video,
                                            cam.motion_detection, cam.timelapse_on)
        /\ status_file = cam.current_status

\* A still and a video in progress at once, with both other flags set: image.
C4_Witness ==
    /\ main_pc = "tick"
    /\ cam.started /\ cam.capturing_still /\ cam.capturing_video
    /\ cam.motion_detection /\ cam.timelapse_on
    /\ cam.current_status = "image"
    /\ status_file = "image"

\* The statuses and the thumbnails along the scenario idle, md 1, ca 1, ca 0;
\* final is the status after the stop.
VideoThumbs(dir) ==
    {f \in dir : thumb_counted(f) /\ thumb_typecount(f).filetype = <<"v">>}

ScenarioStatuses(final) ==
    InLoop =>
        /\ scen = "idle" =>
              /\ cam.current_status = "ready" /\ status_file = "ready"
              /\ cam.video_file_index = 2
        /\ scen = "md1" =>
              /\ cam.current_status = "md_ready" /\ status_file = "md_ready"
              /\ cam.video_file_index = 2
        /\ scen = "ca1" =>
              /\ cam.current_status = "md_video" /\ status_file = "md_video"
              /\ cam.video_file_index = 2
              /\ VideoThumbs(media_dir) = {N_v1}
        /\ scen = "ca0" =>
              /\ cam.current_status = final /\ status_file = final
              /\ cam.video_file_index = 3
              /\ Cardinality(VideoThumbs(media_dir)) = 2
              /\ \E f \in VideoThumbs(media_dir) : thumb_typecount(f).filecount = <<"2">>
        /\ scen_sig => \E k \in 1..Len(motion_pipe) : motion_pipe[k] = "1"

ScoringStep(cur) ==
    /\ MotionIter(cur)
    /\ cam.motion_detection
    /\ md_prev # None
    /\ ~(md_init_count > 1 /\ config.motion_mode # "monitor")

Above(cur) == mse(cur, Get(md_prev)) > config.motion_threshold

\* The start (or stop) signal, and nothing else, was written by the step: "1"
\* ("0") to the motion pipe in internal mode, a line to the log in monitor mode.
Emitted(sig, event) ==
    /\ motion_pipe' = IF config.motion_mode = "internal"
                      THEN Append(motion_pipe, sig) ELSE motion_pipe
    /\ motion_log' = IF config.motion_mode = "monitor"
                     THEN Append(motion_log, event) ELSE motion_log
NothingEmitted == motion_pipe' = motion_pipe /\ motion_log' = motion_log

\* C6: while no motion is detected, a scored frame above the threshold adds one
\* to motion_active_count and a frame at or below it resets the count to 0;
\* detected_motion becomes true on the frame that brings the count to
\* motion_startframes and on no earlier one, and the start signal is written
\* once, by that frame.
C6_StartDebounce ==
    [][/\ \A cur \in Pixels :
            ScoringStep(cur) /\ ~cam.detected_motion =>
                IF Above(cur)
                THEN /\ cam'.motion_active_count = cam.motion_active_count + 1
                     /\ cam'.detected_motion =
                            (cam.motion_active_count + 1 = config.motion_startframes)
                     /\ IF cam'.detected_motion
                        THEN Emitted("1", "start") ELSE NothingEmitted
                ELSE /\ cam'.motion_active_count = 0
                     /\ ~cam'.detected_motion
                     /\ NothingEmitted
       /\ ~cam'.detected_motion =>
              cam'.motion_active_count < config'.motion_startframes
      ]_vars

\* Motion was detected on the third frame above the threshold in a row: one
\* start signal follows the reset signal.
C6_Witness ==
    /\ cam.detected_motion
    /\ cam.motion_active_count = StartFrames
    /\ motion_pipe = <<"9", "1">>
    /\ md_prev # None

\* C7: while motion is detected, a scored frame at or below the threshold adds
\* one to motion_still_count and a frame above it resets the count to 0;
\* detected_motion becomes false on the frame that brings the count to
\* motion_stopframes and on no earlier one, and the stop signal is written
\* once, by that frame.
C7_StopDebounce ==
    [][/\ \A cur \in Pixels :
            ScoringStep(cur) /\ cam.detected_motion =>
                IF Above(cur)
                THEN /\ cam'.motion_still_count = 0
                     /\ cam'.detected_motion
                     /\ NothingEmitted
                ELSE /\ cam'.motion_still_count = cam.motion_still_count + 1
                     /\ cam'.detected_motion =
                            ~(cam.motion_still_count + 1 = config.motion_stopframes)
                     /\ IF ~cam'.detected_motion
                        THEN Emitted("0", "stop") ELSE NothingEmitted
       /\ cam'.detected_motion =>
              cam'.motion_still_count < config'.motion_stopframes
      ]_vars

\* The motion ended on the last of motion_stopframes still frames in a row:
\* one stop signal follows the start signal.
C7_Witness ==
    /\ ~cam.detected_motion
    /\ cam.motion_still_count = StopFrames
    /\ motion_pipe = <<"9", "1", "0">>
    /\ md_prev # None

\* A well-formed thumbnail name is <base>.<type><count>.th.jpg with a type in
\* i, t, v and a count of decimal digits.
RECURSIVE DecimalValue(_)
DecimalValue(digits) ==
    IF digits = <<>> THEN 0
    ELSE 10 * DecimalValue(SubSeq(digits, 1, Len(digits) - 1))
         + (CHOOSE d \in 0..9 : <<"0", "1", "2", "3", "4", "5", "6", "7", "8", "9">>[d + 1]
                                    = digits[Len(digits)])

WellFormed(f, types) ==
    \E b \in 1..Len(f), n \in 1..Len(f) :
        /\ b + 2 + n + 7 = Len(f)
        /\ \A k \in 1..b : f[k] # "."
        /\ f[b + 1] = "."
        /\ f[b + 2] \in types
        /\ \A k \in (b + 3)..(b + 2 + n) : f[k] \in
               {"0", "1", "2", "3", "4", "5", "6", "7", "8", "9"}
        /\ SubSeq(f, b + 3 + n, Len(f)) = <<".", "t", "h", ".", "j", "p", "g">>

CountOf(f) ==
    LET b == CHOOSE k \in 1..Len(f) : f[k] = "." /\ \A j \in 1..(k - 1) : f[j] # "."
    IN  DecimalValue(SubSeq(f, b + 2, Len(f) - 7))

NextIndex(dir, types) ==
    LET counts == {CountOf(f) : f \in {g \in dir : WellFormed(g, types)}} \cup {0}
    IN  1 + CHOOSE m \in counts : \A x \in counts : x <= m

\* C8: the startup scan completes on every listing, skipping the names that are
\* not well formed, and sets the still index to 1 + the largest count of the
\* well-formed i and t names and the video index to 1 + the largest count of
\* the well-formed v names (1 when there is none).
C8_AsStated ==
    main_pc # "init" =>
        /\ main_pc = "setup_fifo"
        /\ cam.still_image_index = NextIndex(media_dir, {"i", "t"})
        /\ cam.video_file_index = NextIndex(media_dir, {"v"})

\* One pass over the template, left to right: %% gives %, a token gives its
\* value, any other character gives itself.
TokenValues(c, now) ==
    [ch \in {"v", "i", "y", "Y", "M", "D", "h", "m", "s", "u"} |->
        CASE ch = "v" -> fmt(4, c.video_file_index)
          [] ch = "i" -> fmt(4, c.still_image_index)
          [] ch = "y" -> SubSeq(fmt(4, now.year), 3, 4)
          [] ch = "Y" -> fmt(4, now.year)
          [] ch = "M" -> fmt(2, now.month)
          [] ch = "D" -> fmt(2, now.day)
          [] ch = "h" -> fmt(2, now.hour)
          [] ch = "m" -> fmt(2, now.minute)
          [] ch = "s" -> fmt(2, now.second)
          [] ch = "u" -> fmt(3, round_ms(now.microsecond))]

RECURSIVE SinglePass(_, _)
SinglePass(t, values) ==
    IF t = <<>> THEN <<>>
    ELSE IF Len(t) >= 2 /\ t[1] = "%" /\ t[2] = "%"
         THEN <<"%">> \o SinglePass(SubSeq(t, 3, Len(t)), values)
    ELSE IF Len(t) >= 2 /\ t[1] = "%" /\ t[2] \in DOMAIN values
         THEN values[t[2]] \o SinglePass(SubSeq(t, 3, Len(t)), values)
    ELSE <<t[1]>> \o SinglePass(Tail(t), values)

\* C9: the path that a "ca 1" which starts a recording gives the video, and
\* the path that an "im" gives the still, is the single left-to-right pass over
\* the configured template.
C9_AsStated ==
    [][(/\ main_pc = "exec"
        /\ main_pc' = "tick"
        /\ cam.current_status # "halted")
       => \E now \in Clocks :
            /\ (/\ Get(next_cmd)[1] = ca
                /\ startswith(Get(next_cmd)[2], <<"1">>)
                /\ ~cam.capturing_video)
               => cam'.current_video_path =
                      Some(SinglePass(config.video_output_path, TokenValues(cam, now)))
            /\ Get(next_cmd)[1] = im
               => SinglePass(config.image_output_path, TokenValues(cam, now))
                      \in media_dir'
      ]_vars

\* C10: once the startup scan has set them, still_image_index and
\* video_file_index never decrease, whatever the commands, halts and restarts
\* included.
C10_IndicesMonotonic ==
    [][main_pc # "init" =>
          /\ cam'.still_image_index >= cam.still_image_index
          /\ cam'.video_file_index >= cam.video_file_index
      ]_vars

\* A still was taken, the daemon was halted and then restarted: the still
\* index is above the one the scan found.
C10_Witness ==
    /\ main_pc = "tick"
    /\ last_exec = 3
    /\ next_cmd # None
    /\ IsRun(Get(next_cmd))
    /\ cam.current_status = "ready"
    /\ cam.still_image_index = 4
    /\ motion_pipe = <<"9", "9">>

\* The video indices that the names of the videos in the directory carry: the
\* video template is v%v_%s, so the index is characters 2 to 5 of the name.
UsedVideoIndices(dir) == {SubSeq(f, 2, 5) : f \in {g \in dir : g[1] = "v"}}

\* C11 as stated: a step that starts a recording renders a video index that no
\* video started before carries, and a step that allocates a video thumbnail
\* gives it a number that no video thumbnail in the directory has.
C11_AsStated ==
    [][/\ ~cam.capturing_video /\ cam'.capturing_video =>
            fmt(4, cam.video_file_index) \notin UsedVideoIndices(media_dir)
       /\ cam'.video_file_index # cam.video_file_index /\ main_pc # "init" =>
            \A f \in VideoThumbs(media_dir) :
                thumb_typecount(f).filecount # str(cam.video_file_index)
      ]_vars

\* C12 as stated: an explicit token that begins with Error becomes the status,
\* and the derivation without a token that update_status_file makes afterwards
\* keeps the status, and writes the status file, equal to that token.
C12_AsStated ==
    [][/\ \A status \in ErrorTokens :
            SetStatus(status) => cam'.current_status = status
       /\ main_pc = "boot_status" /\ main_pc' = "tick"
          /\ IsError(cam.current_status) =>
                /\ cam'.current_status = cam.current_status
                /\ status_file' = cam.current_status
      ]_vars

\* C13: when the execution of a command returns to the main loop, the status
\* file holds exactly the token derived from the flags of that moment, which is
\* also the current status.
C13_StatusFileFresh ==
    [][Executing /\ main_pc' = "tick" =>
          /\ status_file' = StatusTable(cam'.started, cam'.capturing_still,
                                        cam'.capturing_video, cam'.motion_detection,
                                        cam'.timelapse_on)
          /\ cam'.current_status = status_file'
      ]_vars

\* "md 1" was the first command executed: the file, "ready" before, now
\* holds md_ready.
C13_Witness ==
    /\ main_pc = "tick"
    /\ last_exec = 1
    /\ next_cmd # None
    /\ Get(next_cmd)[1] = md
    /\ cam.motion_detection
    /\ status_file = "md_ready"

\* C14: a halt issued while the camera runs sets the status to halted first
\* and leaves the camera running while it waits; it completes only when both
\* the previewer and the motion thread have exited, and never raises; on
\* completion the camera and the encoder are stopped, the status and the
\* status file are halted, the four flags are false and both threads are new
\* and not started.
C14_HaltOrder ==
    [][/\ main_pc = "exec" /\ main_pc' = "halt_join" =>
            /\ cam'.current_status = "halted"
            /\ cam' = [cam EXCEPT !.current_status = "halted"]
            /\ threads' = threads
       /\ main_pc = "halt_join" /\ main_pc' = "halt_join" =>
            /\ cam'.started = cam.started
            /\ cam'.encoder_running = cam.encoder_running
            /\ cam'.current_status = "halted"
       /\ main_pc = "halt_join" /\ cam.started =>
            /\ main_pc' \in {"halt_join", "tick"}
            /\ threads.preview # "new" /\ threads.md # "new"
       /\ main_pc = "halt_join" /\ main_pc' = "tick" =>
            /\ threads = [preview |-> "done", md |-> "done"]
            /\ threads' = [preview |-> "new", md |-> "new"]
            /\ ~cam'.started /\ ~cam'.encoder_running
            /\ cam'.current_status = "halted" /\ status_file' = "halted"
            /\ ~cam'.capturing_still /\ ~cam'.capturing_video
            /\ ~cam'.motion_detection /\ ~cam'.timelapse_on
      ]_vars

\* A running daemon with motion detection enabled was halted: the halt is the
\* second command and it has completed.
C14_Witness ==
    /\ main_pc = "tick"
    /\ last_exec = 2
    /\ next_cmd # None
    /\ IsHalt(Get(next_cmd))
    /\ scen = "off"
    /\ status_file = "halted"
    /\ threads = [preview |-> "new", md |-> "new"]
    /\ ~cam.started /\ ~cam.motion_detection
    /\ config.autostart

\* C15 as stated: the execution of a run command always completes, and then
\* the camera is running, the status and the status file hold the derived
\* token, which is not halted, and the previewer and the motion thread are
\* both alive.
C15_AsStated ==
    [][main_pc = "exec" /\ main_pc' # "exec" /\ IsRun(Get(next_cmd)) =>
          /\ main_pc' = "tick"
          /\ cam'.started
          /\ cam'.current_status # "halted"
          /\ cam'.current_status = StatusTable(cam'.started, cam'.capturing_still,
                                               cam'.capturing_video,
                                               cam'.motion_detection, cam'.timelapse_on)
          /\ status_file' = cam'.current_status
          /\ threads' = [preview |-> "alive", md |-> "alive"]
      ]_vars

\* C16: a ca start executed while a video is being captured, and a ca stop
\* executed while none is, change nothing of the camera but the status, which
\* is the derived token and no error, and write no file.
C16_RedundantNoop ==
    [][(/\ main_pc = "exec" /\ main_pc' # "exec"
        /\ Get(next_cmd)[1] = ca
        /\ startswith(Get(next_cmd)[2], <<"1">>) = cam.capturing_video)
       => /\ cam' = [cam EXCEPT !.current_status = cam'.current_status]
          /\ ~IsError(cam'.current_status)
          /\ cam'.current_status = StatusTable(cam.started, cam.capturing_still,
                                               cam.capturing_video,
                                               cam.motion_detection, cam.timelapse_on)
          /\ status_file' = cam'.current_status
          /\ media_dir' = media_dir
          /\ config' = config
      ]_vars

\* The first command executed by the idle daemon was a ca stop.
C16_Witness ==
    /\ main_pc = "tick"
    /\ last_exec = 1
    /\ next_cmd # None
    /\ Get(next_cmd)[1] = ca
    /\ ~startswith(Get(next_cmd)[2], <<"1">>)
    /\ config.autostart
    /\ cam.current_status = "ready"
    /\ cam.video_file_index = 2

\* C17: executing im while not halted adds one to still_image_index and
\* leaves video_file_index; executing a ca stop while a video is being
\* captured adds one to video_file_index and leaves still_image_index; no
\* other step of the constructed daemon, command or loop, changes either.
C17_OneIndexPerThumbnail ==
    [][main_pc # "init" =>
         LET cmd == Get(next_cmd)
             executing == /\ main_pc = "exec" /\ main_pc' # "exec"
                          /\ cam.current_status # "halted"
         IN  IF executing /\ cmd[1] = im
             THEN /\ cam'.still_image_index = cam.still_image_index + 1
                  /\ cam'.video_file_index = cam.video_file_index
             ELSE IF /\ executing /\ cmd[1] = ca
                     /\ ~startswith(cmd[2], <<"1">>) /\ cam.capturing_video
             THEN /\ cam'.video_file_index = cam.video_file_index + 1
                  /\ cam'.still_image_index = cam.still_image_index
             ELSE /\ cam'.still_image_index = cam.still_image_index
                  /\ cam'.video_file_index = cam.video_file_index
      ]_vars

\* One still and one finished recording after a start with indices 3 and 2.
C17_Witness ==
    /\ main_pc = "tick"
    /\ last_exec = 3
    /\ Get(next_cmd) [1] = ca
    /\ ~cam.capturing_video
    /\ cam.still_image_index = 4
    /\ cam.video_file_index = 3

ShutdownSteps ==
    <<"shutdown", "join_reader", "join_threads", "final_status", "close_fifo",
      "exited">>

ShutdownStep(pc) == CHOOSE i \in 1..Len(ShutdownSteps) : ShutdownSteps[i] = pc

LoopsExited ==
    /\ reader_pc = "done"
    /\ threads.preview # "alive"
    /\ threads.md # "alive"

\* The steps of the shutdown sequence in order, none skipped: the reader is
\* joined, then the live previewer and motion threads, only then teardown
\* stops the camera, then the status file is written and holds halted, and
\* only then the control pipe is closed.
ShutdownOrder ==
    /\ main_pc' = "shutdown" /\ main_pc # "shutdown"
       => main_pc = "tick" /\ ~process_running
    /\ main_pc \in {"shutdown", "join_reader", "join_threads", "final_status",
                    "close_fifo"}
       => /\ ~process_running
          /\ main_pc' # main_pc
             => main_pc' = ShutdownSteps[ShutdownStep(main_pc) + 1]
          /\ main_pc # "final_status" => status_file' = status_file
          /\ main_pc # "close_fifo" => fifo_fd = "open" /\ fifo_fd' = "open"
          /\ main_pc = "join_reader" /\ main_pc' # main_pc => reader_pc = "done"
          /\ main_pc = "join_threads" /\ main_pc' # main_pc
             => /\ LoopsExited
                /\ ~cam'.started /\ ~cam'.encoder_running
          /\ main_pc = "final_status" /\ main_pc' # main_pc
             => /\ LoopsExited
                /\ ~cam.started /\ ~cam.encoder_running
                /\ status_file' = "halted"
          /\ main_pc = "close_fifo" /\ main_pc' # main_pc
             => /\ LoopsExited
                /\ ~cam.started /\ ~cam.encoder_running
                /\ status_file = "halted"
                /\ fifo_fd' = "closed"

\* C18 as stated: once process_running is false after a successful start, the
\* dispatcher is in its loop about to leave it or in the shutdown sequence,
\* and the sequence runs in order with no step skipped.
C18_AsStated ==
    [][/\ ShutdownOrder
       /\ ~process_running' /\ reader_pc' # "new"
          => main_pc' \in {"boot_status", "tick", "try_lock", "pop", "exec",
                           "halt_join"}
                          \cup {ShutdownSteps[i] : i \in 1..Len(ShutdownSteps)}
      ]_vars

\* C19 as stated: whatever valid commands arrive, the dispatcher is never
\* ended by an exception, and neither is the motion loop.
C19_AsStated ==
    /\ main_pc # "crashed"
    /\ ~md_error

FailedBoot ==
    /\ main_pc = "exited"
    /\ ~process_running
    /\ reader_pc = "new"
    /\ threads = [preview |-> "new", md |-> "new"]
    /\ command_queue = <<>>
    /\ next_cmd = None
    /\ last_exec = 0
    /\ ~cam.started /\ ~cam.encoder_running
    /\ fifo_fd = "closed"

\* C20: when setup_fifo fails, start_background_process ends at once:
\* process_running was never set, no reader, previewer or motion thread was
\* started, no command was executed, the camera is torn down; and nothing
\* happens afterwards.
C20_BootFailFatal ==
    [][/\ main_pc = "setup_fifo" /\ fifo_fd' # "open" => FailedBoot'
       /\ ~FailedBoot
      ]_vars

\* setup_fifo failed after the constructor had started the camera.
C20_Witness ==
    /\ main_pc = "exited"
    /\ config.autostart
    /\ reader_pc = "new"
    /\ fifo_fd = "closed"
    /\ status_file = NoStatus

\* C21: a motion thread that is started begins before its loop; the step that
\* takes it into its loop writes the one character 9; every other write to
\* the motion pipe is a 0 or a 1 written by a thread that is in its loop,
\* hence after its 9; and the pipe is only ever appended to, one character at
\* a time.
C21_ResetFirst ==
    [][/\ threads.md # "alive" /\ threads'.md = "alive" => md_pc' = "start"
       /\ md_pc = "start" /\ md_pc' # "start"
          => /\ threads.md = "alive"
             /\ md_pc' = "loop"
             /\ motion_pipe' = Append(motion_pipe, "9")
       /\ motion_pipe' # motion_pipe
          => /\ threads.md = "alive"
             /\ \E ch \in {"0", "1", "9"} :
                   /\ motion_pipe' = Append(motion_pipe, ch)
                   /\ ch = "9" <=> md_pc = "start"
                   /\ ch # "9" => md_pc = "loop" /\ md_pc' = "loop"
      ]_vars

\* The second motion thread, started by a run after a halt, has written its
\* reset after the first thread had signalled a start.
C21_Witness ==
    /\ motion_pipe = <<"9", "1", "9">>
    /\ md_pc = "loop"
    /\ threads.md = "alive"

\* C22 as stated: a halt leaves the configuration and both file indices as
\* they were, and so does the run that follows it; after that run the capture
\* flags are false, motion_detection is what the constructor set, the motion
\* state is reset and there is no current video path.
C22_AsStated ==
    [][/\ main_pc = "halt_join" /\ main_pc' = "tick"
          => /\ config' = config
             /\ cam'.still_image_index = cam.still_image_index
             /\ cam'.video_file_index = cam.video_file_index
       /\ (/\ main_pc = "exec" /\ main_pc' = "tick"
           /\ IsRun(Get(next_cmd)) /\ cam.current_status = "halted")
          => /\ config' = config
             /\ cam'.still_image_index = cam.still_image_index
             /\ cam'.video_file_index = cam.video_file_index
             /\ ~cam'.capturing_video
             /\ ~cam'.capturing_still
             /\ ~cam'.timelapse_on
             /\ cam'.motion_detection = (config.autostart /\ config.motion_detection)
             /\ ~cam'.detected_motion
             /\ cam'.motion_still_count = 0
             /\ cam'.motion_active_count = 0
             /\ cam'.current_video_path = None
      ]_vars

\* C23 as stated: once the daemon has entered its main loop no step changes
\* the configuration.
C23_AsStated ==
    [][main_pc \notin {"init", "setup_fifo"} => config' = config]_vars

\* C23: once the daemon has entered its main loop no step changes a
\* configuration value other than motion_mode, and motion_mode is changed only
\* by executing mx while not halted: to internal by the parameter 0, to
\* monitor by the parameter 2.
C23_OnlyModeChanges ==
    [][main_pc \notin {"init", "setup_fifo"} =>
         /\ config' = [config EXCEPT !.motion_mode = config'.motion_mode]
         /\ config'.motion_mode # config.motion_mode
            => /\ main_pc = "exec" /\ main_pc' = "tick"
               /\ Get(next_cmd)[1] = mx
               /\ cam.current_status # "halted"
               /\ \/ Get(next_cmd)[2] = <<"0">> /\ config'.motion_mode = "internal"
                  \/ Get(next_cmd)[2] = <<"2">> /\ config'.motion_mode = "monitor"
      ]_vars

\* mx 2 was executed: the mode is monitor, the rest of the configuration is
\* what was loaded.
C23_Witness ==
    /\ main_pc = "tick"
    /\ next_cmd # None
    /\ Get(next_cmd)[1] = mx
    /\ config.motion_mode = "monitor"
    /\ config = [DefaultConfig EXCEPT !.motion_mode = "monitor"]

\* One attempt per tick, made from the test of the queue; it takes the free
\* lock and goes on to pop, or, when the reader holds the lock, ends the tick
\* with the lock, the queue, the camera and the last executed command
\* untouched.
LockAttempt ==
    /\ main_pc' = "try_lock" /\ main_pc # "try_lock"
       => main_pc = "tick" /\ command_queue # <<>>
    /\ main_pc = "try_lock" /\ main_pc' # "try_lock"
       => IF cmd_queue_lock = "free"
          THEN cmd_queue_lock' = "main" /\ main_pc' = "pop"
          ELSE /\ cmd_queue_lock = "reader"
               /\ main_pc' = "tick"
               /\ UNCHANGED <<cmd_queue_lock, command_queue, next_cmd,
                              last_exec, cam, status_file, reader_pc>>

\* C24: the dispatcher's attempt on the lock can always be made, whoever
\* holds the lock, and every tick makes at most one attempt, which either
\* takes the free lock or ends the tick without executing a command.
C24_NeverBlocks ==
    /\ [](main_pc = "try_lock" => ENABLED MainTryLock)
    /\ [][LockAttempt]_vars

\* The dispatcher is about to attempt the lock while the reader holds it and
\* a command is waiting.
C24_Witness ==
    /\ main_pc = "try_lock"
    /\ cmd_queue_lock = "reader"
    /\ reader_pc = "append"
    /\ command_queue # <<>>

\* The reader holds the lock exactly between its acquire and its release,
\* the dispatcher exactly between its successful attempt and its release, so
\* never both, and never while a command is executed.
LockHolders ==
    /\ cmd_queue_lock \in {"free", "reader", "main"}
    /\ cmd_queue_lock = "reader" <=> reader_pc = "append"
    /\ cmd_queue_lock = "main" <=> main_pc = "pop"
    /\ Executing => cmd_queue_lock # "main"

\* The queue changes only by the append of the reader holding the lock or by
\* the pop(0) of the dispatcher holding it, and that same step releases it.
QueueUnderLock ==
    command_queue' # command_queue
    => /\ cmd_queue_lock' = "free"
       /\ \/ /\ cmd_queue_lock = "reader" /\ reader_pc = "append"
             /\ Len(command_queue') = Len(command_queue) + 1
             /\ SubSeq(command_queue', 1, Len(command_queue)) = command_queue
             /\ reader_pc' = "read"
          \/ /\ cmd_queue_lock = "main" /\ main_pc = "pop"
             /\ command_queue # <<>>
             /\ command_queue' = Tail(command_queue)
             /\ main_pc' = "exec"

\* C25: the queue is mutated only by the loop that holds the lock, the two
\* loops never hold it together, and each holds it for its single append or
\* pop only; the command is executed after the release.
C25_QueueLocked ==
    /\ []LockHolders
    /\ [][QueueUnderLock]_vars

\* The dispatcher holds the lock for its pop while the reader waits for it
\* with a parsed command.
C25_Witness ==
    /\ main_pc = "pop"
    /\ cmd_queue_lock = "main"
    /\ reader_pc = "acquire"
    /\ incoming_cmd # None

(***************************************************************************)
(* The daemon under fair scheduling: every thread that can take a step of  *)
(* its code eventually takes one.  Frames, pipe texts and signals are      *)
(* inputs and are not required to arrive.                                  *)
(***************************************************************************)
MainStep ==
    \/ BootStatus
    \/ MainLeave
    \/ MainTest
    \/ MainTryLock
    \/ MainPop
    \/ ExecHaltBegin
    \/ ExecHaltJoinError
    \/ ExecHaltFinish
    \/ ExecRun
    \/ \E now \in Clocks : ExecOther(now)
    \/ ShutdownStatus
    \/ ShutdownJoinReader
    \/ ShutdownTeardown
    \/ ShutdownStatusFile
    \/ ShutdownClose

ReaderStep ==
    \/ ReaderExit
    \/ ReaderAcquire
    \/ ReaderAppend

MotionStep ==
    \/ MotionStart
    \/ MotionExit

InitFair == InitWith({T_ru0, T_ru1, T_md1}, Configs, DaemonDirs)

SpecFair ==
    /\ InitFair
    /\ [][Next]_vars
    /\ WF_vars(MainStep)
    /\ WF_vars(ReaderStep)
    /\ WF_vars(PreviewExit)
    /\ WF_vars(MotionStep)

\* C26 as stated: once process_running is false after a successful start,
\* the reader, the previewer, the motion thread and the dispatcher all end
\* and the shutdown sequence runs to its end.
C26_AsStated ==
    (~process_running /\ reader_pc # "new")
       ~> (/\ main_pc = "exited"
           /\ reader_pc = "done"
           /\ threads.preview # "alive"
           /\ threads.md # "alive")

MotionState(c) == <<c.detected_motion, c.motion_still_count, c.motion_active_count>>

\* C27 as stated: detected_motion and the two frame counters are changed
\* only by a step of the motion thread, never by a step of the dispatcher.
C27_AsStated ==
    [][MotionState(cam') # MotionState(cam)
          => /\ threads.md = "alive" /\ md_pc = "loop"
             /\ main_pc' = main_pc
      ]_vars

\* C28: an iteration of the motion loop leaves the command queue, its lock,
\* the status and the status file, the capture flags, the motion_detection
\* flag, the path of the current video, the configuration, the file indices
\* and the media directory unchanged; of the camera it changes at most
\* detected_motion and the two frame counters.
C28_MotionFrame ==
    [][(\E cur \in Pixels : MotionIter(cur))
          => /\ UNCHANGED <<command_queue, cmd_queue_lock, config, status_file,
                            media_dir, next_cmd, incoming_cmd, process_running,
                            fifo_fd, main_pc, reader_pc>>
             /\ cam' = [cam EXCEPT !.detected_motion = cam'.detected_motion,
                                   !.motion_still_count = cam'.motion_still_count,
                                   !.motion_active_count = cam'.motion_active_count]
             /\ motion_pipe' # motion_pipe => motion_log' = motion_log
      ]_vars

\* The motion loop has signalled a start while a command was waiting in the
\* queue and a video was being captured.
C28_Witness ==
    /\ cam.detected_motion
    /\ cam.capturing_video
    /\ motion_pipe = <<"9", "1">>
    /\ command_queue # <<>>
    /\ threads.md = "alive"

(***************************************************************************)
(* The daemon configured with a warm-up: motion_initframes above 1 and     *)
(* motion detection enabled at start, in internal and in monitor mode.     *)
(***************************************************************************)
InitFrames == 3

WarmupConfigs ==
    {[DefaultConfig EXCEPT !.motion_initframes = InitFrames,
                           !.motion_detection = TRUE,
                           !.motion_mode = m] : m \in {"internal", "monitor"}}

InitWarmup == InitWith({T_ru0, T_ru1, T_md1}, WarmupConfigs, DaemonDirs)

SpecWarmup == InitWarmup /\ [][Next]_vars

\* C29 as stated: while the countdown is above 1 and the mode is not
\* monitor, an iteration stores the frame as the previous one, scores
\* nothing, signals nothing, keeps the loop running, and lowers the countdown
\* by one only when the frame equals the previous one; in monitor mode the
\* iteration sets the countdown to 0 and scores the frame.
C29_AsStated ==
    [][\A cur \in Pixels :
          (MotionIter(cur) /\ md_init_count > 1)
          => IF config.motion_mode # "monitor"
             THEN /\ md_prev' = Some(cur)
                  /\ MotionState(cam') = MotionState(cam)
                  /\ motion_pipe' = motion_pipe
                  /\ motion_log' = motion_log
                  /\ threads' = threads
                  /\ ~md_error'
                  /\ \/ md_init_count' = md_init_count
                     \/ md_init_count' = md_init_count - 1 /\ md_prev = Some(cur)
             ELSE /\ md_init_count' = 0
                  /\ md_prev' = Some(cur)
                  /\ cam.motion_detection /\ md_prev # None
                     => cam' = score(cam, config, cur, Get(md_prev)).cam
      ]_vars

\* ---------------------------------------------------------------------------
\* A writer that outpaces the dispatcher.
\*
\* parse_incoming_commands appends every valid command it reads
\* (process.py:100-104); nothing in the loop reads the length of the queue.
\* ReaderReadAny is ReaderRead without the MaxCmds / MaxQueue limits of the
\* daemon specification: the writer may offer a command whenever fewer than
\* MaxFlood commands were queued in all.
MaxFlood == 11

ReaderReadAny(contents) ==
    /\ reader_pc = "read"
    /\ process_running
    /\ fifo_fd = "open"
    /\ LET incoming == read_pipe(contents) IN
       /\ incoming # None => n_enq < MaxFlood
       /\ incoming_cmd' = incoming
       /\ reader_pc' = IF incoming # None THEN "acquire" ELSE "read"
    /\ UNCHANGED <<cam, config, process_running, command_queue, cmd_queue_lock,
                   fifo_fd, status_file, motion_pipe, motion_log, media_dir,
                   threads, main_pc, next_cmd, md_pc, md_prev, md_init_count,
                   md_error, inputs, n_enq, last_exec, scen, scen_sig>>

InitFlood ==
    /\ media_dir \in DaemonDirs
    /\ inputs = {T_md1, T_md0}
    /\ RunningIdle(DefaultConfig, BootedCam(DefaultConfig, media_dir))

NextFlood ==
    \/ \E contents \in inputs : ReaderReadAny(contents)
    \/ ReaderAcquire
    \/ ReaderAppend
    \/ MainTest
    \/ MainTryLock
    \/ MainPop
    \/ \E now \in Clocks : ExecOther(now)

SpecFlood == InitFlood /\ [][NextFlood]_vars

\* C30 as stated: the command queue never holds more than FIFO_MAX (10)
\* commands at once, whatever the rates of the pipe reader and the
\* dispatcher.
C30_AsStated == Len(command_queue) <= FIFO_MAX

\* The command with arrival number k was popped and its execute_command
\* returned.
Executed(k) ==
    \/ last_exec > k
    \/ last_exec = k /\ main_pc \notin {"exec", "halt_join", "crashed"}

\* C31 as stated: under fair scheduling every command appended to the queue
\* while process_running is true is eventually executed by the dispatcher.
C31_AsStated ==
    \A k \in 1..MaxCmds :
        (n_enq = k /\ process_running) ~> Executed(k)

Tested == main_pc \in {"try_lock", "pop"}

\* While the dispatcher is between its test and its pop, the only change to
\* the queue by another loop is an append at the tail; the head stays.
OnlyAppended ==
    Tested /\ command_queue' # command_queue /\ main_pc' = main_pc
    => /\ Len(command_queue') = Len(command_queue) + 1
       /\ SubSeq(command_queue', 1, Len(command_queue)) = command_queue
       /\ Head(command_queue') = Head(command_queue)

\* C33: the dispatcher never pops from an empty queue: the queue it found
\* non-empty before taking the lock is still non-empty at the pop, because
\* between test and pop no other loop removes an element.
C33_PopNonEmpty ==
    /\ [](Tested => command_queue # <<>>)
    /\ [][OnlyAppended]_vars

\* The dispatcher is at its pop and the reader has appended a second command
\* since the dispatcher's last pop.
C33_Witness ==
    /\ main_pc = "pop"
    /\ Len(command_queue) = 2
    /\ last_exec = 1
    /\ n_enq = 3

\* The life of the Thread object in slot t: a loop is started only on an
\* object that never ran, an object is replaced only after its loop ended,
\* and a run command leaves a running loop as it is.
OneInstance(t) ==
    /\ threads'[t] = "alive" /\ threads[t] # "alive" => threads[t] = "new"
    /\ threads'[t] = "new" /\ threads[t] # "new" => threads[t] = "done"
    /\ threads[t] = "alive" /\ main_pc = "exec" /\ IsRun(Get(next_cmd))
       /\ main_pc' # "exec"
       => threads'[t] = "alive" /\ (t = "md" => md_pc' = md_pc)

\* C34: at most one previewer loop and at most one motion loop run at any
\* moment: the loop of the old thread object has ended before the object is
\* replaced, only a fresh object is started, and a run while the loops run
\* starts nothing.
C34_SingleInstance ==
    /\ [](\A t \in {"preview", "md"} : threads[t] \in {"new", "alive", "done"})
    /\ [][OneInstance("preview") /\ OneInstance("md")]_vars

\* After a halt and a run the motion loop was started a second time, and a
\* further run found both loops running and left them so.
C34_Witness ==
    /\ main_pc = "tick"
    /\ last_exec = 3
    /\ IsRun(Get(next_cmd))
    /\ threads = [preview |-> "alive", md |-> "alive"]
    /\ md_pc = "loop"
    /\ motion_pipe = <<"9", "9">>

(***************************************************************************)
(* The daemon in internal motion mode throughout: the default              *)
(* configuration, and writers that send no mx command.                     *)
(***************************************************************************)
InitInternal == InitWith({T_ru0, T_ru1, T_ca1, T_ca0, T_md1}, {DefaultConfig}, DaemonDirs)

SpecInternal == InitInternal /\ [][Next]_vars

\* C35 as stated: on the motion pipe every "1" directly follows a "9" or a
\* "0", and every "0" directly follows a "1": after each reset the start
\* and stop signals alternate, beginning with a start.
C35_AsStated ==
    \A k \in 1..Len(motion_pipe) :
        /\ motion_pipe[k] = "1"
           => k > 1 /\ motion_pipe[k - 1] \in {"9", "0"}
        /\ motion_pipe[k] = "0"
           => k > 1 /\ motion_pipe[k - 1] = "1"

\* The next step of the previewer (of the motion loop) is an iteration, which
\* begins with capture_request (capture_buffer).
PreviewFetching == threads.preview = "alive" /\ cam.current_status # "halted"
MotionFetching ==
    threads.md = "alive" /\ md_pc = "loop" /\ cam.current_status # "halted"

\* C36 as stated: whenever the previewer or the motion loop is running and
\* about to fetch a frame, the camera is running.
C36_AsStated == PreviewFetching \/ MotionFetching => cam.started

\* C37 as stated: between command executions current_video_path is set
\* exactly when capturing_video is true.
C37_AsStated ==
    main_pc = "tick" => (cam.current_video_path # None <=> cam.capturing_video)

(***************************************************************************)
(* The motion loop and the dispatcher under fair scheduling, with md        *)
(* commands only and frames that stay quiet once motion was detected: while *)
(* detected_motion is true every frame equals the previous one.  The loop   *)
(* keeps capturing frames for as long as the status is not halted.          *)
(***************************************************************************)
MotionIterQuiet ==
    \E cur \in Pixels :
        /\ cam.detected_motion => md_prev = Some(cur)
        /\ MotionIter(cur)

DispatchStep ==
    \/ MainTest
    \/ MainTryLock
    \/ MainPop
    \/ \E now \in Clocks : ExecOther(now)

InitQuiet ==
    /\ media_dir \in DaemonDirs
    /\ inputs = {T_md1, T_md0}
    /\ RunningIdle(DefaultConfig, BootedCam(DefaultConfig, media_dir))

NextQuiet ==
    \/ \E contents \in inputs : ReaderRead(contents)
    \/ ReaderAcquire
    \/ ReaderAppend
    \/ DispatchStep
    \/ MotionStart
    \/ MotionIterQuiet

SpecQuiet ==
    /\ InitQuiet
    /\ [][NextQuiet]_vars
    /\ WF_vars(ReaderAcquire \/ ReaderAppend)
    /\ WF_vars(DispatchStep)
    /\ WF_vars(MotionStart)
    /\ WF_vars(MotionIterQuiet)

\* C38 as stated: when detected_motion is true and the frames stay at or
\* below the threshold from then on, detected_motion eventually becomes
\* false, whatever md commands are executed in the meantime.
C38_AsStated == cam.detected_motion ~> ~cam.detected_motion

(***************************************************************************)
(* make_filecounts and generate_thumbnail of the variant without timelapse *)
(* (arm/_internal/core/model.py), and the round trip between them: the     *)
(* daemon allocates thumbnails for stills and videos, and the directory is *)
(* scanned as a restart would scan it.                                     *)
(***************************************************************************)
\* `sub in s`.
contains(s, sub) ==
    \E k \in 1..(Len(s) - Len(sub) + 1) : SubSeq(s, k, k + Len(sub) - 1) = sub

\* s.split("_")[1], for s with at least one "_".
split_second(s) ==
    LET first == CHOOSE k \in 1..Len(s) : s[k] = "_" /\ \A j \in 1..(k - 1) : s[j] # "_"
        rest == SubSeq(s, first + 1, Len(s))
    IN  IF \E k \in 1..Len(rest) : rest[k] = "_"
        THEN SubSeq(rest, 1,
                    (CHOOSE k \in 1..Len(rest) :
                        rest[k] = "_" /\ \A j \in 1..(k - 1) : rest[j] # "_") - 1)
        ELSE rest

im_ == <<"i", "m", "_">>
vi_ == <<"v", "i", "_">>

\* A name counts when its extension is ".th", its stem contains the marker
\* and int() of the second "_" field does not raise.
simple_counted(f, marker) ==
    /\ splitext(f)[2] = dot_th
    /\ contains(splitext(f)[1], marker)
    /\ int(split_second(splitext(f)[1])).ok

simple_count(f) == int(split_second(splitext(f)[1])).value

make_filecounts_simple(all_files) ==
    LET imgs == {simple_count(f) : f \in {g \in all_files : simple_counted(g, im_)}}
        vids == {simple_count(f) :
                    f \in {g \in all_files : /\ splitext(g)[2] = dot_th
                                              /\ ~contains(splitext(g)[1], im_)
                                              /\ simple_counted(g, vi_)}}
    IN  [ok |-> TRUE,
         still_image_index |-> SetMax(imgs \cup {0}) + 1,
         video_file_index |-> SetMax(vids \cup {0}) + 1]

generate_thumbnail_simple(c, filetype, filepath) ==
    LET filename == splitext(filepath)[1]
        count == IF filetype \in {"i", "t"} THEN c.still_image_index
                 ELSE c.video_file_index
        c2 == IF filetype \in {"i", "t"}
              THEN [c EXCEPT !.still_image_index = count + 1]
              ELSE [c EXCEPT !.video_file_index = count + 1]
    IN  <<c2, filename \o <<".", filetype>> \o str(count) \o dot_th_jpg>>

MaxAlloc == 4

P_still1 == <<"i", "m", "_", "7", ".", "j", "p", "g">>
P_still2 == <<"i", "m", "_", "8", ".", "j", "p", "g">>
P_video1 == <<"v", "i", "_", "2", ".", "m", "p", "4">>
P_video2 == <<"v", "i", "_", "3", ".", "m", "p", "4">>
N_im5 == <<"i", "m", "_", "5", ".", "t", "h">>
N_vi4 == <<"v", "i", "_", "4", ".", "t", "h">>
RoundTripDirs == {{}, {N_im5}, {N_im5, N_vi4}}

\* The constructor's scan, then a running daemon.
InitRoundTrip ==
    /\ media_dir \in RoundTripDirs
    /\ inputs = {}
    /\ \E fc \in {make_filecounts_simple(media_dir)} :
          RunningIdle(DefaultConfig,
                      [BootedCam(DefaultConfig, {}) EXCEPT
                          !.still_image_index = fc.still_image_index,
                          !.video_file_index = fc.video_file_index])

\* generate_thumbnail for a still or a video that was just written.
Allocate(filetype, filepath) ==
    /\ Cardinality(media_dir) < MaxAlloc
    /\ \E r \in {generate_thumbnail_simple(cam, filetype, filepath)} :
          /\ cam' = r[1]
          /\ media_dir' = media_dir \cup {r[2]}
    /\ UNCHANGED <<config, process_running, command_queue, cmd_queue_lock, fifo_fd,
                   status_file, motion_pipe, motion_log, threads, main_pc,
                   next_cmd, reader_pc, incoming_cmd, md_pc, md_prev,
                   md_init_count, md_error, inputs, n_enq, last_exec, scen, scen_sig>>

NextRoundTrip ==
    \/ \E filepath \in {P_still1, P_still2} : Allocate("i", filepath)
    \/ \E filepath \in {P_video1, P_video2} : Allocate("v", filepath)

SpecRoundTrip == InitRoundTrip /\ [][NextRoundTrip]_vars

\* C39 as stated: after any sequence of still and video allocations, a
\* recovery scan of the output directory yields the in-memory counters.
C39_AsStated ==
    LET fc == make_filecounts_simple(media_dir) IN
    /\ fc.still_image_index = cam.still_image_index
    /\ fc.video_file_index = cam.video_file_index

=============================================================================
